---- MODULE Spec2Model ----
(***************************************************************************)
(* The completion request pipeline of AICompletionProvider                 *)
(* (src/src/completion/completionProvider.ts): cache, debounce table,      *)
(* timers, cancellation tokens, backend calls and the token counter.       *)
(* Strings are sequences of one-character strings.  The pure functions    *)
(* (cache key, insert text, line kind, scope) are applied to inputs drawn  *)
(* from bounded sets in specifications of their own.                       *)
(***************************************************************************)
EXTENDS Integers, Sequences, FiniteSets, TLC

\* ------------------------------------------------------------------ bounds
MaxReq == 3

\* ------------------------------------------------------- program constants
CACHE_DURATION == 30000
DEBOUNCE_DELAY == 500

\* an optional number that is absent (CompletionResponse.inputTokens?)
Undefined == -1

VARIABLES
    now,          \* Date.now()
    cache,        \* Map<string, CompletionCache>
    debounceMap,  \* Map<string, Timeout>: key -> timer handle (the request that set it)
    timers,       \* the timers set and neither fired nor cleared: handle -> time set
    requests,     \* the calls of provideCompletionItems whose promise is pending
    issued,       \* the number of calls of provideCompletionItems so far
    settled,      \* the call that returned in the step just taken, if one did
    stats,        \* TokenCounter.stats
    input,        \* the arguments a pure function is applied to
    output        \* <<its value>>, or <<>> before it is applied

vars ==
    <<now, cache, debounceMap, timers, requests, issued, settled, stats,
      input, output>>

\* the variables of the request pipeline, and those of the pure functions
pipeline == <<now, cache, debounceMap, timers, requests, issued, settled, stats>>
pure == <<input, output>>

\* --------------------------------------------------------------- strings
Min(a, b) == IF a < b THEN a ELSE b

IsWhitespace(c) == c \in {" ", "\t", "\n"}

RECURSIVE trimStart(_)
trimStart(s) ==
    IF s = <<>> THEN s
    ELSE IF IsWhitespace(Head(s)) THEN trimStart(Tail(s)) ELSE s

RECURSIVE trimEnd(_)
trimEnd(s) ==
    IF s = <<>> THEN s
    ELSE IF IsWhitespace(s[Len(s)]) THEN trimEnd(SubSeq(s, 1, Len(s) - 1)) ELSE s

\* String.prototype.trim
trim(s) == trimEnd(trimStart(s))

\* String.prototype.substring(0, end)
substring(s, end) == SubSeq(s, 1, Min(end, Len(s)))

DigitChar(d) == <<"0", "1", "2", "3", "4", "5", "6", "7", "8", "9">>[d + 1]

\* the decimal text of a non-negative integer inside a template literal
RECURSIVE toString(_)
toString(n) ==
    IF n < 10 THEN <<DigitChar(n)>>
    ELSE toString(n \div 10) \o <<DigitChar(n % 10)>>

\* ------------------------------------------------------------- documents
fsPath == <<"f">>
languageId == "javascript"

\* the cursor positions requests are made at
Positions ==
    { [line |-> 0, character |-> 0], [line |-> 0, character |-> 1],
      [line |-> 1, character |-> 1] }

\* TextDocument.lineAt(line) throws when the document has no such line
lineAtThrows(doc, line) == line < 0 \/ line >= Len(doc)

lineAt(doc, line) == doc[line + 1]

\* buildCacheKey: `${fsPath}:${line}:${character}:${lineText}`
cacheKeyOf(path, line, character, lineText) ==
    path \o <<":">> \o toString(line) \o <<":">>
         \o toString(character) \o <<":">> \o lineText

buildCacheKey(doc, position) ==
    cacheKeyOf(fsPath, position.line, position.character,
               substring(lineAt(doc, position.line), position.character))

RECURSIVE join(_, _)
join(ls, sep) ==
    IF ls = <<>> THEN <<>>
    ELSE IF Len(ls) = 1 THEN ls[1]
    ELSE ls[1] \o sep \o join(Tail(ls), sep)

\* getContext: up to 10 lines before and after the cursor line
getContext(doc, position) ==
    LET contextLines == 10
        lo == IF position.line - contextLines > 0
              THEN position.line - contextLines ELSE 0
        hi == Min(Len(doc), position.line + contextLines + 1)
        before == [i \in 1..(position.line - lo) |-> lineAt(doc, lo + i - 1)]
        after == [i \in 1..(hi - position.line - 1) |->
                     lineAt(doc, position.line + i)]
    IN [before |-> before,
        after |-> after,
        fullContext |-> join(before \o <<lineAt(doc, position.line)>> \o after,
                             <<"\n">>)]

\* buildPrompt: every branch of the switch returns the current line prefix
buildPrompt(currentLine, context, position) == currentLine

buildCompletionRequest(doc, position) ==
    LET currentLinePrefix ==
            substring(lineAt(doc, position.line), position.character)
        context == getContext(doc, position)
    IN [prompt |-> buildPrompt(currentLinePrefix, context, position),
        language |-> languageId,
        context |-> context.fullContext]

\* String.prototype.split by a one-character separator
RECURSIVE split(_, _)
split(s, sep) ==
    IF \A i \in 1..Len(s) : s[i] # sep THEN <<s>>
    ELSE LET i == CHOOSE j \in 1..Len(s) :
                      s[j] = sep /\ \A h \in 1..(j - 1) : s[h] # sep
         IN <<SubSeq(s, 1, i - 1)>> \o split(SubSeq(s, i + 1, Len(s)), sep)

\* the match of /^\s*/: the leading run of white space
RECURSIVE leadingWhitespace(_)
leadingWhitespace(s) ==
    IF s = <<>> \/ ~IsWhitespace(Head(s)) THEN <<>>
    ELSE <<Head(s)>> \o leadingWhitespace(Tail(s))

\* formatInsertText: the lines after the first get the white space that
\* leads the current line's text before the cursor
formatInsertText(suggestion, doc, position) ==
    LET linePrefix == substring(lineAt(doc, position.line), position.character)
        currentIndent == leadingWhitespace(linePrefix)
        lines == split(suggestion, "\n")
    IN IF \E i \in 1..Len(suggestion) : suggestion[i] = "\n"
       THEN join([i \in 1..Len(lines) |->
                     IF i = 1 THEN lines[i] ELSE currentIndent \o lines[i]],
                 <<"\n">>)
       ELSE suggestion

\* ---------------------------------------------------------------- backend
\* the results AIService.getCompletion resolves with
Responses ==
    { [success |-> FALSE, text |-> <<>>,
       inputTokens |-> Undefined, outputTokens |-> Undefined],
      [success |-> TRUE, text |-> <<>>, inputTokens |-> 2, outputTokens |-> 0],
      [success |-> TRUE, text |-> <<" ">>, inputTokens |-> 2, outputTokens |-> 1],
      [success |-> TRUE, text |-> <<"x">>, inputTokens |-> 2, outputTokens |-> 1],
      [success |-> TRUE, text |-> <<"y">>, inputTokens |-> 0, outputTokens |-> 1] }

\* JavaScript truthiness of an optional number
Truthy(n) == n # Undefined /\ n # 0

\* ------------------------------------------------------------------- maps
MapSet(m, k, v) == [x \in (DOMAIN m) \cup {k} |-> IF x = k THEN v ELSE m[x]]
MapDelete(m, k) == [x \in (DOMAIN m) \ {k} |-> m[x]]
EmptyMap == [x \in {} |-> 0]

\* ---------------------------------------------------------- token counter
\* mutant: one invocation counts the request twice
addTokens_Twice(s, inputTokens, outputTokens) ==
    [inputTokens |-> s.inputTokens + 2 * inputTokens,
     outputTokens |-> s.outputTokens + 2 * outputTokens,
     totalTokens |-> s.totalTokens + 2 * (inputTokens + outputTokens),
     requestCount |-> s.requestCount + 2]

\* TokenCounter.addTokens
addTokens(s, inputTokens, outputTokens) ==
    [inputTokens |-> s.inputTokens + inputTokens,
     outputTokens |-> s.outputTokens + outputTokens,
     totalTokens |-> s.totalTokens + (inputTokens + outputTokens),
     requestCount |-> s.requestCount + 1]

ZeroStats ==
    [inputTokens |-> 0, outputTokens |-> 0, totalTokens |-> 0, requestCount |-> 0]

\* mutant: the request count survives a reset
resetStats_KeepCount(s) ==
    [inputTokens |-> 0, outputTokens |-> 0, totalTokens |-> 0,
     requestCount |-> s.requestCount]

\* TokenCounter.resetStats (the date of the reset is not kept)
resetStats(s) ==
    [inputTokens |-> 0, outputTokens |-> 0, totalTokens |-> 0, requestCount |-> 0]

\* ------------------------------------------------------------------ cache
\* mutant: an entry of age exactly CACHE_DURATION still counts as live
CacheLive_Inclusive(cached, t) == t - cached.timestamp <= CACHE_DURATION

\* line 91: Date.now() - cached.timestamp < this.CACHE_DURATION
CacheLive(cached, t) == t - cached.timestamp < CACHE_DURATION

\* mutant: the hit returns the stored context instead of the stored text
CacheHitResult_Context(cached) == <<cached.context>>

\* line 92: return [cached.text]
CacheHitResult(cached) == <<cached.text>>

\* mutant: the entry stores the prompt, not the backend's text
CacheEntry_Prompt(response, request, t) ==
    [text |-> request.prompt, timestamp |-> t, context |-> request.context]

\* lines 127-131: the entry written for a usable backend result
CacheEntry(response, request, t) ==
    [text |-> response.text, timestamp |-> t, context |-> request.context]

\* mutant: nothing is swept
cleanCache_Never(c, t) == c

\* cleanCache: delete the entries older than CACHE_DURATION
cleanCache(c, t) ==
    [k \in {x \in DOMAIN c : ~(t - c[x].timestamp > CACHE_DURATION)} |-> c[k]]

\* ------------------------------------------------------------- pipeline
\* mutant: the token is not looked at on entry
EntryRejected_NoTokenCheck(isEnabled, isCancellationRequested) == ~isEnabled

\* lines 47 and 52: the feature is disabled or the token is cancelled at entry
EntryRejected(isEnabled, isCancellationRequested) ==
    ~isEnabled \/ isCancellationRequested

\* mutant: the delayed execution does not look at the token
FireCancelled_Never(token) == FALSE

\* line 104: token.isCancellationRequested inside the delayed execution
FireCancelled(token) == token

\* mutant: the prompt is not trimmed before the test
PromptEmpty_NoTrim(prompt) == prompt = <<>>

\* mutant: every prompt counts as empty
PromptEmpty_Always(prompt) == TRUE

\* line 112: !request.prompt.trim()
PromptEmpty(prompt) == trim(prompt) = <<>>

\* mutant: the text of a successful result is not looked at
ResponseUsable_NoTextCheck(response) == response.success

\* line 120: response.success && response.text.trim()
ResponseUsable(response) == response.success /\ trim(response.text) # <<>>

\* line 122: response.inputTokens && response.outputTokens
HasTokenCounts(response) ==
    Truthy(response.inputTokens) /\ Truthy(response.outputTokens)

NoRequest == [prompt |-> <<>>, language |-> languageId, context |-> <<>>]

\* no backend result (the call returned without one)
NoResponse ==
    [success |-> FALSE, text |-> <<>>,
     inputTokens |-> Undefined, outputTokens |-> Undefined]

\* what a call returned: the values it read (position, token, the setting
\* `enabled`, its key, the prompt it built, the backend result), the branch
\* that returned, and the value
Returned(position, token, isEnabled, cacheKey, prompt, response, path, result) ==
    [position |-> position, token |-> token, enabled |-> isEnabled,
     cacheKey |-> cacheKey, prompt |-> prompt, response |-> response,
     path |-> path, result |-> result]

\* the position of a call that returned before reading it
NoPosition == [line |-> 0, character |-> 0]

\* mutant: the exception is passed on to the caller
CatchOuter_Rethrow(error) == [threw |-> error, raised |-> TRUE, items |-> <<>>]

\* lines 71-74: catch (error) { console.error(...); return []; }
CatchOuter(error) == [threw |-> error, raised |-> FALSE, items |-> <<>>]

\* nothing was thrown and provideCompletionItems returns items
Items(items) == [threw |-> "none", raised |-> FALSE, items |-> items]

\* lines 141-143: the catch of the delayed execution resolves [], which
\* provideCompletionItems returns on line 61
CatchInner(error) == [threw |-> error, raised |-> FALSE, items |-> <<>>]

\* lines 60-69: the suggestions become completion items, whose insertText is
\* formatInsertText(suggestion, document, position); doc is the document as
\* it is then
createCompletionItems(suggestions, doc, position) ==
    IF Len(suggestions) = 0 THEN Items(<<>>)
    ELSE IF lineAtThrows(doc, position.line) THEN CatchOuter("format")
    ELSE Items([i \in 1..Len(suggestions) |->
                   formatInsertText(suggestions[i], doc, position)])

\* a call that returned, with what provideCompletionItems handed to its
\* caller: the items, or an exception (raised), and what was thrown inside
Outcome(ret, end) ==
    [position |-> ret.position, token |-> ret.token, enabled |-> ret.enabled,
     cacheKey |-> ret.cacheKey, prompt |-> ret.prompt,
     response |-> ret.response, path |-> ret.path, result |-> ret.result,
     threw |-> end.threw, raised |-> end.raised, items |-> end.items]

NoneSettled ==
    Outcome(Returned(NoPosition, FALSE, TRUE, <<>>, <<>>,
                     NoResponse, "none", <<>>), Items(<<>>))

\* the pending calls of key k whose timer is set and has not fired
Pending(k) ==
    {q \in DOMAIN requests :
        requests[q].pc = "scheduled" /\ requests[q].cacheKey = k}

\* a call whose timer was cleared: its promise stays pending and nothing
\* reads what its callback captured any more, so only its token is kept
Orphan(token) ==
    [pc |-> "cleared", position |-> [line |-> 0, character |-> 0],
     token |-> token, cacheKey |-> <<>>, request |-> NoRequest]

\* mutant: every timer that is set is cleared, whatever its handle
clearTimeout_All(rs, handles) ==
    [q \in DOMAIN rs |->
        IF handles # {} /\ rs[q].pc = "scheduled"
        THEN Orphan(rs[q].token) ELSE rs[q]]

\* clearTimeout(handle): a timer that has fired or was cleared is left as it is
clearTimeout(rs, handles) ==
    [q \in DOMAIN rs |->
        IF q \in handles /\ rs[q].pc = "scheduled"
        THEN Orphan(rs[q].token) ELSE rs[q]]

Remove(m, ks) == [x \in (DOMAIN m) \ ks |-> m[x]]

\* the provider after construction
PipelineInit ==
    /\ now = 0
    /\ cache = EmptyMap
    /\ debounceMap = EmptyMap
    /\ timers = EmptyMap
    /\ requests = EmptyMap
    /\ issued = 0
    /\ settled = NoneSettled
    /\ stats = ZeroStats

Init ==
    /\ PipelineInit
    /\ input = <<>>
    /\ output = <<>>

\* provideCompletionItems up to its first suspension: the checks at entry,
\* then getCompletionSuggestions: cache lookup, clearTimeout of the key's
\* timer, setTimeout and debounceMap.set.  isEnabled is the setting read on
\* line 46, doc the document as it is at the call.
provideCompletionItems(doc, position, isCancellationRequested, isEnabled) ==
    /\ issued < MaxReq
    /\ issued' = issued + 1
    /\ LET r == issued + 1
           cacheKey == buildCacheKey(doc, position)
           old == IF cacheKey \in DOMAIN debounceMap
                  THEN {debounceMap[cacheKey]} ELSE {}
       IN IF EntryRejected(isEnabled, isCancellationRequested)
          THEN /\ settled' = Outcome(
                      Returned(NoPosition, isCancellationRequested, isEnabled,
                               <<>>, <<>>, NoResponse,
                               IF ~isEnabled THEN "disabled" ELSE "cancelled",
                               <<>>), Items(<<>>))
               /\ UNCHANGED <<cache, debounceMap, timers, requests>>
          ELSE IF lineAtThrows(doc, position.line)
          THEN /\ settled' = Outcome(
                      Returned(position, isCancellationRequested, isEnabled,
                               <<>>, <<>>, NoResponse, "keyThrew", <<>>),
                      CatchOuter("key"))
               /\ UNCHANGED <<cache, debounceMap, timers, requests>>
          ELSE IF cacheKey \in DOMAIN cache /\ CacheLive(cache[cacheKey], now)
          THEN /\ settled' = Outcome(
                      Returned(position, isCancellationRequested, isEnabled,
                               cacheKey, <<>>, NoResponse, "hit",
                               CacheHitResult(cache[cacheKey])),
                      createCompletionItems(CacheHitResult(cache[cacheKey]),
                                            doc, position))
               /\ UNCHANGED <<cache, debounceMap, timers, requests>>
          ELSE /\ requests' =
                     MapSet(clearTimeout(requests, old), r,
                            [pc |-> "scheduled", position |-> position,
                             token |-> isCancellationRequested,
                             cacheKey |-> cacheKey, request |-> NoRequest])
               /\ timers' = MapSet(Remove(timers, old), r, now)
               /\ debounceMap' = MapSet(debounceMap, cacheKey, r)
               /\ settled' = NoneSettled
               /\ UNCHANGED cache
    /\ UNCHANGED <<now, stats, pure>>

\* the setTimeout callback up to the await of aiService.getCompletion; doc is
\* the document as it is when the timer fires (timers of equal delay fire in
\* the order they were set)
TimerFires(r, doc) ==
    /\ r \in DOMAIN timers
    /\ now - timers[r] >= DEBOUNCE_DELAY
    /\ \A q \in DOMAIN timers : r <= q
    /\ timers' = Remove(timers, {r})
    /\ IF FireCancelled(requests[r].token)
       THEN /\ settled' = Outcome(
                   Returned(requests[r].position, requests[r].token, TRUE,
                            requests[r].cacheKey, <<>>, NoResponse,
                            "fireCancelled", <<>>), Items(<<>>))
            /\ requests' = Remove(requests, {r})
            /\ debounceMap' = MapDelete(debounceMap, requests[r].cacheKey)
       ELSE IF lineAtThrows(doc, requests[r].position.line)
       THEN /\ settled' = Outcome(
                   Returned(requests[r].position, requests[r].token, TRUE,
                            requests[r].cacheKey, <<>>, NoResponse,
                            "requestThrew", <<>>), CatchInner("request"))
            /\ requests' = Remove(requests, {r})
            /\ debounceMap' = MapDelete(debounceMap, requests[r].cacheKey)
       ELSE LET request == buildCompletionRequest(doc, requests[r].position)
            IN IF PromptEmpty(request.prompt)
               THEN /\ settled' = Outcome(
                           Returned(requests[r].position, requests[r].token,
                                    TRUE, requests[r].cacheKey, request.prompt,
                                    NoResponse, "emptyPrompt", <<>>),
                           Items(<<>>))
                    /\ requests' = Remove(requests, {r})
                    /\ debounceMap' = MapDelete(debounceMap, requests[r].cacheKey)
               ELSE /\ requests' = [requests EXCEPT ![r].pc = "awaiting",
                                                    ![r].request = request]
                    /\ settled' = NoneSettled
                    /\ UNCHANGED debounceMap
    /\ UNCHANGED <<now, cache, issued, stats, pure>>

\* the rest of the callback, after aiService.getCompletion has resolved, and
\* of provideCompletionItems after its await; doc is the document as it is then
BackendReturns(r, response, doc) ==
    /\ r \in DOMAIN requests
    /\ requests[r].pc = "awaiting"
    /\ IF ResponseUsable(response)
       THEN /\ stats' = IF HasTokenCounts(response)
                        THEN addTokens(stats, response.inputTokens,
                                       response.outputTokens)
                        ELSE stats
            /\ cache' = cleanCache(
                   MapSet(cache, requests[r].cacheKey,
                          CacheEntry(response, requests[r].request, now)), now)
            /\ settled' = Outcome(
                   Returned(requests[r].position, requests[r].token, TRUE,
                            requests[r].cacheKey, requests[r].request.prompt,
                            response, "success", <<response.text>>),
                   createCompletionItems(<<response.text>>, doc,
                                         requests[r].position))
       ELSE /\ settled' = Outcome(
                   Returned(requests[r].position, requests[r].token, TRUE,
                            requests[r].cacheKey, requests[r].request.prompt,
                            response,
                            IF response.success THEN "emptyText" ELSE "failure",
                            <<>>), Items(<<>>))
            /\ UNCHANGED <<cache, stats>>
    /\ requests' = Remove(requests, {r})
    /\ debounceMap' = MapDelete(debounceMap, requests[r].cacheKey)
    /\ UNCHANGED <<now, timers, issued, pure>>

\* aiService.getCompletion rejects: the catch on line 141 resolves [] and the
\* finally block runs
BackendThrows(r) ==
    /\ r \in DOMAIN requests
    /\ requests[r].pc = "awaiting"
    /\ settled' = Outcome(
           Returned(requests[r].position, requests[r].token, TRUE,
                    requests[r].cacheKey, requests[r].request.prompt,
                    NoResponse, "backendThrew", <<>>), CatchInner("backend"))
    /\ requests' = Remove(requests, {r})
    /\ debounceMap' = MapDelete(debounceMap, requests[r].cacheKey)
    /\ UNCHANGED <<now, cache, timers, issued, stats, pure>>

\* clearCache, run when a text document is closed
clearCache ==
    /\ cache' = EmptyMap
    /\ requests' = clearTimeout(requests,
                       {debounceMap[k] : k \in DOMAIN debounceMap})
    /\ timers' = Remove(timers, {debounceMap[k] : k \in DOMAIN debounceMap})
    /\ debounceMap' = EmptyMap
    /\ settled' = NoneSettled
    /\ UNCHANGED <<now, issued, stats, pure>>

\* the caller cancels the token of a call whose execution is scheduled or
\* awaiting the backend
Cancel(r) ==
    /\ r \in DOMAIN requests
    /\ requests[r].pc \in {"scheduled", "awaiting"}
    /\ ~requests[r].token
    /\ requests' = [requests EXCEPT ![r].token = TRUE]
    /\ settled' = NoneSettled
    /\ UNCHANGED <<now, cache, debounceMap, timers, issued, stats, pure>>

\* the instants at which the clock is read: a request, the firing of its
\* timer, a second firing, and the same one cache lifetime later
Instants ==
    {0, DEBOUNCE_DELAY, 2 * DEBOUNCE_DELAY,
     DEBOUNCE_DELAY + CACHE_DURATION, 2 * DEBOUNCE_DELAY + CACHE_DURATION}

\* time passes
Tick(t) ==
    /\ t > now
    /\ now' = t
    /\ settled' = NoneSettled
    /\ UNCHANGED <<cache, debounceMap, timers, requests, issued, stats, pure>>

\* the documents a call, a firing timer or a returning backend call finds:
\* one line, edited between them, or two lines
Documents == { <<(<<"a", "b">>), (<<"a", "b">>)>>, <<(<<" ", "b">>)>> }

Next ==
    \/ \E doc \in Documents, position \in Positions, c \in BOOLEAN,
          isEnabled \in BOOLEAN :
           provideCompletionItems(doc, position, c, isEnabled)
    \/ \E r \in 1..MaxReq, doc \in Documents : TimerFires(r, doc)
    \/ \E r \in 1..MaxReq, response \in Responses, doc \in Documents :
           BackendReturns(r, response, doc)
    \/ \E r \in 1..MaxReq : BackendThrows(r)
    \/ clearCache
    \/ \E r \in 1..MaxReq : Cancel(r)
    \/ \E t \in Instants : Tick(t)

Spec == Init /\ [][Next]_vars

\* a timer that is due fires, a backend call returns, and time passes
Fairness ==
    /\ \A r \in 1..MaxReq : WF_vars(\E doc \in Documents : TimerFires(r, doc))
    /\ \A r \in 1..MaxReq :
           WF_vars(\E response \in Responses, doc \in Documents :
                       BackendReturns(r, response, doc))
    /\ WF_vars(\E t \in Instants : Tick(t))

FairSpec == Spec /\ Fairness

\* ------------------------------------------- the backend without a key
\* what the network request of getCompletion ends with: axios rejects, or
\* parseResponse returns one of Responses
NetworkOutcomes == [rejected : BOOLEAN, parsed : Responses]

\* the catch block of getCompletion: { text: '', success: false, error }
ServiceFailure ==
    [success |-> FALSE, text |-> <<>>,
     inputTokens |-> Undefined, outputTokens |-> Undefined]

\* mutant: the key is not looked at
getCompletion_NoKeyCheck(apiKey, outcome) ==
    [response |-> IF outcome.rejected THEN ServiceFailure ELSE outcome.parsed,
     networkRequests |-> 1,
     raised |-> FALSE]

\* AIService.getCompletion: the result it resolves with, the number of
\* network requests it made, and whether it threw.  Without a key the
\* Error thrown on line 60 is caught on line 105, before any request
getCompletion(apiKey, outcome) ==
    IF apiKey = <<>>
    THEN [response |-> ServiceFailure, networkRequests |-> 0, raised |-> FALSE]
    ELSE [response |-> IF outcome.rejected THEN ServiceFailure ELSE outcome.parsed,
          networkRequests |-> 1,
          raised |-> FALSE]

\* the provider with an AIService whose apiKey setting is empty
NoKeyInit ==
    /\ PipelineInit
    /\ input = [apiKey |-> <<>>]
    /\ output = <<>>

\* the backend call of r returns what getCompletion resolves with
ServiceReturns(r, doc) ==
    \E outcome \in NetworkOutcomes :
        BackendReturns(r, getCompletion(input.apiKey, outcome).response, doc)

NoKeyNext ==
    \/ \E doc \in Documents, position \in Positions, c \in BOOLEAN,
          isEnabled \in BOOLEAN :
           provideCompletionItems(doc, position, c, isEnabled)
    \/ \E r \in 1..MaxReq, doc \in Documents : TimerFires(r, doc)
    \/ \E r \in 1..MaxReq, doc \in Documents : ServiceReturns(r, doc)
    \/ clearCache
    \/ \E r \in 1..MaxReq : Cancel(r)
    \/ \E t \in Instants : Tick(t)

NoKeySpec == NoKeyInit /\ [][NoKeyNext]_vars

\* ------------------------------------------------ the token counter alone
\* the number of addTokens calls between two resets
MaxCalls == 4

\* the token counts addTokens is called with
TokenCounts == 0..2

\* the counter as loadStats leaves it when nothing is stored (resetStats);
\* input is the last call made and the number of addTokens calls since the
\* last reset
CounterInit ==
    /\ PipelineInit
    /\ input = [op |-> "loadStats", inputTokens |-> 0, outputTokens |-> 0,
                calls |-> 0]
    /\ output = <<>>

CounterAdd(inputTokens, outputTokens) ==
    /\ input.calls < MaxCalls
    /\ stats' = addTokens(stats, inputTokens, outputTokens)
    /\ input' = [op |-> "addTokens", inputTokens |-> inputTokens,
                 outputTokens |-> outputTokens, calls |-> input.calls + 1]
    /\ UNCHANGED <<now, cache, debounceMap, timers, requests, issued, settled,
                   output>>

CounterReset ==
    /\ stats' = resetStats(stats)
    /\ input' = [op |-> "resetStats", inputTokens |-> 0, outputTokens |-> 0,
                 calls |-> 0]
    /\ UNCHANGED <<now, cache, debounceMap, timers, requests, issued, settled,
                   output>>

CounterNext ==
    \/ \E inputTokens \in TokenCounts, outputTokens \in TokenCounts :
           CounterAdd(inputTokens, outputTokens)
    \/ CounterReset

CounterSpec == CounterInit /\ [][CounterNext]_vars

\* ---------------------------------------------------- the configuration
\* the keys of AICompletionConfig that validateConfig looks at, and one of
\* those it does not
ConfigKeys ==
    {"apiKey", "baseUrl", "model", "maxTokens", "temperature", "delay",
     "enabled"}

\* the number of keys of an imported object
MaxImportKeys == 3

Letters ==
    {"a", "b", "c", "d", "e", "f", "g", "h", "i", "j", "k", "l", "m", "n",
     "o", "p", "q", "r", "s", "t", "u", "v", "w", "x", "y", "z"}

\* new URL(u) does not throw: u starts with a scheme and a colon
URLParses(u) ==
    \E i \in 2..Len(u) : u[i] = ":" /\ \A j \in 1..(i - 1) : u[j] \in Letters

validModels == {"glm-4.6", "glm-4.5-air"}

\* ConfigManager.validateConfig: the keys with an error. An absent key is
\* <<>>, a present one <<value>>; temperature is counted in tenths.
validateConfig(config) ==
    {key \in ConfigKeys :
        /\ config[key] # <<>>
        /\ LET value == config[key][1]
           IN CASE key = "apiKey" -> value = <<>> \/ Len(trim(value)) < 10
                [] key = "baseUrl" -> ~URLParses(value)
                [] key = "model" -> value \notin validModels
                [] key = "maxTokens" -> value < 1 \/ value > 8192
                [] key = "temperature" -> value < 0 \/ value > 20
                [] key = "delay" -> value < 100 \/ value > 5000
                [] OTHER -> FALSE}

\* the loop of importConfig from entry i on: updateConfig for every key but
\* apiKey, in the order of the object's entries; the update of entry
\* rejected, if any, throws and the catch returns false
RECURSIVE applyEntries(_, _, _, _, _)
applyEntries(store, config, order, i, rejected) ==
    IF i > Len(order) THEN [returned |-> TRUE, store |-> store]
    ELSE IF order[i] = "apiKey"
    THEN applyEntries(store, config, order, i + 1, rejected)
    ELSE IF i = rejected THEN [returned |-> FALSE, store |-> store]
    ELSE applyEntries([store EXCEPT ![order[i]] = config[order[i]][1]],
                      config, order, i + 1, rejected)

\* ConfigManager.importConfig on a text that JSON.parse accepts (parses) as
\* the object config with its entries in the order given, or rejects
importConfig(store, json, rejected) ==
    IF ~json.parses THEN [returned |-> FALSE, store |-> store]
    ELSE IF validateConfig(json.config) # {}
    THEN [returned |-> FALSE, store |-> store]
    ELSE applyEntries(store, json.config, json.order, 1, rejected)

\* getConfig with the defaults of every key and a stored API key
DefaultConfig ==
    [apiKey |-> <<"s", "k", "-", "0", "1", "2", "3", "4", "5", "6", "7", "8",
        "9">>,
     baseUrl |-> <<"h", "t", "t", "p", "s", ":", "/", "/", "o", "p", "e",
         "n", ".", "b", "i", "g", "m", "o", "d", "e", "l", ".", "c", "n">>,
     model |-> "glm-4.6", maxTokens |-> 1024, temperature |-> 3,
     delay |-> 500, enabled |-> TRUE]

\* the objects an import may carry: per key nothing, a value that passes
\* validation and differs from the default, or one that fails it
ImportConfigs ==
    {c \in [apiKey : {<<>>, << <<"s", "k", "-", "9", "8", "7", "6", "5", "4",
        "3", "2", "1", "0">> >>, << <<" ", "s", "h", "o", "r", "t", " ">> >>},
            baseUrl : {<<>>, << <<"h", "t", "t", "p", "s", ":", "/", "/",
                "a", ".", "b">> >>, << <<"a", ".", "b">> >>},
            model : {<<>>, <<"glm-4.5-air">>, <<"gpt-4">>},
            maxTokens : {<<>>, <<2048>>, <<0>>, <<8193>>},
            temperature : {<<>>, <<7>>, <<21>>},
            delay : {<<>>, <<100>>, <<5000>>, <<99>>, <<5001>>},
            enabled : {<<>>, <<FALSE>>}] :
        Cardinality({key \in ConfigKeys : c[key] # <<>>}) <= MaxImportKeys}

\* Object.entries(config): the present keys in the order of the text
Entries(config) ==
    LET present == {key \in ConfigKeys : config[key] # <<>>}
    IN {order \in UNION {[1..n -> present] : n \in 0..MaxImportKeys} :
           /\ Len(order) = Cardinality(present)
           /\ \A i, j \in 1..Len(order) : i # j => order[i] # order[j]}

ConfigInit ==
    /\ PipelineInit
    /\ input = DefaultConfig
    /\ output = <<>>

\* one import: any text, and any one update refused by the configuration
\* store (rejected = 0: none)
ConfigImport ==
    /\ output = <<>>
    /\ \E parses \in BOOLEAN, config \in ImportConfigs,
          rejected \in 0..MaxImportKeys :
         \E order \in Entries(config) :
            LET json == [parses |-> parses, config |-> config, order |-> order]
                result == importConfig(input, json, rejected)
            IN /\ input' = result.store
               /\ output' = << [returned |-> result.returned, json |-> json,
                                before |-> input] >>
    /\ UNCHANGED pipeline

ConfigNext == ConfigImport

ConfigSpec == ConfigInit /\ [][ConfigNext]_vars

\* ------------------------------------------------- the cache key alone
\* two calls of buildCacheKey: the document's path, the cursor and the text
\* of the cursor line
KeyInputs ==
    [fsPath : { <<"a">>, <<"a", ":", "1">> },
     line : 1..2,
     character : {0, 2},
     text : { <<>>, <<"0", ":">>, <<"x", "y">> }]

\* the prefix buildCacheKey reads on line 357
KeyPrefix(call) == substring(call.text, call.character)

KeyInit ==
    /\ PipelineInit
    /\ input \in KeyInputs \X KeyInputs
    /\ output = <<>>

KeyApply ==
    /\ output = <<>>
    /\ output' =
           << [i \in 1..2 |->
                  cacheKeyOf(input[i].fsPath, input[i].line,
                             input[i].character, KeyPrefix(input[i]))] >>
    /\ UNCHANGED <<input, pipeline>>

KeyNext == KeyApply

KeySpec == KeyInit /\ [][KeyNext]_vars

\* ----------------------------------------------- the insert text alone
\* ContextAnalyzer.getIndentation: the white space that leads a line
getIndentation(line) == leadingWhitespace(line)

\* a call of formatInsertText: the suggestion, the text of the cursor line
\* and the cursor column
FormatInputs ==
    [suggestion : { <<"a">>, <<"a", "\n", "b">>, <<"a", "\n", "b", "\n", "c">>,
                    <<"\n", "b">>, <<"a", "\n">> },
     text : { <<>>, <<"x">>, <<" ", " ", "x">>, <<" ", "\t", "x">>,
              <<" ", " ", " ">> },
     character : 0..3]

FormatInit ==
    /\ PipelineInit
    /\ input \in FormatInputs
    /\ output = <<>>

FormatApply ==
    /\ output = <<>>
    /\ output' = << formatInsertText(input.suggestion, <<input.text>>,
                                     [line |-> 0, character |-> input.character]) >>
    /\ UNCHANGED <<input, pipeline>>

FormatNext == FormatApply

FormatSpec == FormatInit /\ [][FormatNext]_vars

\* ------------------------------------------------- regular expressions
\* The part of JavaScript's RegExp the language configs use, matched as
\* JavaScript matches it: alternatives in order, greedy repetition,
\* backtracking, the first match found is the result.
Lower ==
    {"a", "b", "c", "d", "e", "f", "g", "h", "i", "j", "k", "l", "m", "n",
     "o", "p", "q", "r", "s", "t", "u", "v", "w", "x", "y", "z"}
Upper == {"A", "B", "C", "D", "E", "F", "G", "H", "I", "J", "K", "L", "M", "N",
     "O", "P", "Q", "R", "S", "T", "U", "V", "W", "X", "Y", "Z"}
Digits == {"0", "1", "2", "3", "4", "5", "6", "7", "8", "9"}

\* the character classes \w and \s
WordChars == Lower \cup Upper \cup Digits \cup {"_"}
SpaceChars == {" ", "\t", "\n"}

Lit(str) == [op |-> "lit", str |-> str]
OneOf(chars) == [op |-> "set", chars |-> chars, neg |-> FALSE]
NoneOf(chars) == [op |-> "set", chars |-> chars, neg |-> TRUE]
AnyChar == [op |-> "set", chars |-> {"\n"}, neg |-> TRUE]
Concat(args) == [op |-> "seq", args |-> args]
Alt(args) == [op |-> "alt", args |-> args]
Star(arg) == [op |-> "star", arg |-> arg]
Plus(arg) == [op |-> "plus", arg |-> arg]
Opt(arg) == [op |-> "opt", arg |-> arg]
Group(n, arg) == [op |-> "group", n |-> n, arg |-> arg]
WordBoundary == [op |-> "wordb"]

\* a capture group that took no part in the match (undefined in JavaScript)
NoGroup == [matched |-> FALSE, text |-> <<>>]
NoCaptures == [n \in 1..3 |-> NoGroup]

\* the ways re matches s from position i on, best first: where each ends
\* (the position after its last character) and what its groups captured
RECURSIVE matchAt(_, _, _, _)
RECURSIVE matchFrom(_, _, _)
matchAt(re, s, i, caps) ==
    LET here == << [end |-> i, caps |-> caps] >>
        isWord(j) == j >= 1 /\ j <= Len(s) /\ s[j] \in WordChars
    IN CASE re.op = "lit" ->
              IF /\ i + Len(re.str) - 1 <= Len(s)
                 /\ SubSeq(s, i, i + Len(re.str) - 1) = re.str
              THEN << [end |-> i + Len(re.str), caps |-> caps] >> ELSE <<>>
         [] re.op = "set" ->
              IF i <= Len(s) /\ ((s[i] \in re.chars) # re.neg)
              THEN << [end |-> i + 1, caps |-> caps] >> ELSE <<>>
         [] re.op = "seq" ->
              IF re.args = <<>> THEN here
              ELSE matchFrom(Concat(Tail(re.args)), s,
                             matchAt(Head(re.args), s, i, caps))
         [] re.op = "alt" ->
              IF re.args = <<>> THEN <<>>
              ELSE matchAt(Head(re.args), s, i, caps)
                       \o matchAt(Alt(Tail(re.args)), s, i, caps)
         [] re.op = "star" ->
              matchFrom(re, s, SelectSeq(matchAt(re.arg, s, i, caps),
                                         LAMBDA m : m.end > i)) \o here
         [] re.op = "plus" ->
              matchFrom(Star(re.arg), s, matchAt(re.arg, s, i, caps))
         [] re.op = "opt" -> matchAt(re.arg, s, i, caps) \o here
         [] re.op = "group" ->
              LET ms == matchAt(re.arg, s, i, caps)
              IN [k \in 1..Len(ms) |->
                     [end |-> ms[k].end,
                      caps |-> [ms[k].caps EXCEPT ![re.n] =
                                   [matched |-> TRUE,
                                    text |-> SubSeq(s, i, ms[k].end - 1)]]]]
         [] re.op = "wordb" ->
              IF isWord(i - 1) # isWord(i) THEN here ELSE <<>>

\* re matched from the end of each of the matches ms, in their order
matchFrom(re, s, ms) ==
    IF ms = <<>> THEN <<>>
    ELSE matchAt(re, s, Head(ms).end, Head(ms).caps) \o matchFrom(re, s, Tail(ms))

\* RegExp.prototype.exec for a pattern that starts with ^: the captures of
\* the first match, and whether there is one (RegExp.prototype.test)
exec(re, s) == matchAt(re, s, 1, NoCaptures)
test(re, s) == exec(re, s) # <<>>

\* the character classes as patterns
Space == OneOf(SpaceChars)
Word == OneOf(WordChars)

\* ------------------------------------------------------ language configs
\* the LanguageConfig of javascript (lines 386-399); an optional pattern is
\* <<the pattern>>, or <<>> when the config has none
javascriptConfig ==
    [
     \* line 387
     functionPattern |->
       Concat(<<Opt(Concat(<<Lit(<<"a", "s", "y", "n", "c">>),
       Plus(Space)>>)), Alt(<<Concat(<<Lit(<<"f", "u", "n", "c", "t", "i",
       "o", "n">>), Plus(Space), Group(1, Plus(Word))>>), Concat(<<Lit(<<"c",
       "o", "n", "s", "t">>), Plus(Space), Group(2, Plus(Word)), Star(Space),
       Lit(<<"=">>), Star(Space), Opt(Concat(<<Lit(<<"a", "s", "y", "n",
       "c">>), Plus(Space)>>)), Lit(<<"(">>), Star(NoneOf({")"})),
       Lit(<<")">>), Star(Space), Lit(<<"=", ">">>)>>),
       Concat(<<Alt(<<Lit(<<"c", "o", "n", "s", "t">>), Lit(<<"l", "e",
       "t">>), Lit(<<"v", "a", "r">>)>>), Plus(Space), Group(3, Plus(Word)),
       Star(Space), Lit(<<"=">>), Star(Space), Opt(Concat(<<Lit(<<"a", "s",
       "y", "n", "c">>), Plus(Space)>>)), Lit(<<"f", "u", "n", "c", "t", "i",
       "o", "n">>)>>)>>)>>),
     \* line 388
     classPattern |->
       Concat(<<Lit(<<"c", "l", "a", "s", "s">>), Plus(Space), Group(1,
       Plus(Word)), Opt(Concat(<<Plus(Space), Lit(<<"e", "x", "t", "e", "n",
       "d", "s">>), Plus(Space), Group(2, Plus(Word))>>)),
       Opt(Concat(<<Plus(Space), Lit(<<"i", "m", "p", "l", "e", "m", "e",
       "n", "t", "s">>), Plus(Space), Group(3, Plus(NoneOf({"{"})))>>)),
       Star(Space), Lit(<<"{">>)>>),
     \* line 389
     importPattern |->
       Alt(<<Concat(<<Lit(<<"i", "m", "p", "o", "r", "t">>), Plus(Space),
       Star(AnyChar), Lit(<<"f", "r", "o", "m">>), Plus(Space), OneOf({"'",
       "\""}), Plus(NoneOf({"'", "\""})), OneOf({"'", "\""})>>),
       Concat(<<Lit(<<"c", "o", "n", "s", "t">>), Plus(Space), Star(AnyChar),
       Lit(<<"=">>), Star(Space), Lit(<<"r", "e", "q", "u", "i", "r", "e",
       "(">>), OneOf({"'", "\""}), Plus(NoneOf({"'", "\""})), OneOf({"'",
       "\""}), Lit(<<")">>)>>)>>),
     \* line 390
     variablePattern |->
       Concat(<<Alt(<<Lit(<<"c", "o", "n", "s", "t">>), Lit(<<"l", "e",
       "t">>), Lit(<<"v", "a", "r">>)>>), Plus(Space), Group(1, Plus(Word)),
       Opt(Concat(<<Lit(<<":">>), Star(Space), Group(2, Plus(Word))>>)),
       Opt(Concat(<<Star(Space), Lit(<<"=">>), Star(Space), Group(3,
       Plus(AnyChar))>>))>>),
     \* line 391
     commentPattern |->
       Lit(<<"/", "/">>),
     \* line 392
     stringPattern |->
       OneOf({"'", "\""}),
     \* line 393
     conditionalPattern |->
       Concat(<<Alt(<<Lit(<<"i", "f">>), Concat(<<Lit(<<"e", "l", "s",
       "e">>), Plus(Space), Lit(<<"i", "f">>)>>), Lit(<<"s", "w", "i", "t",
       "c", "h">>)>>), Star(Space), Lit(<<"(">>)>>),
     \* line 394
     loopPattern |->
       Concat(<<Alt(<<Lit(<<"f", "o", "r">>), Lit(<<"w", "h", "i", "l",
       "e">>), Lit(<<"d", "o">>)>>), Star(Space), Lit(<<"(">>)>>),
     \* line 395
     returnPattern |->
       Concat(<<Lit(<<"r", "e", "t", "u", "r", "n">>), WordBoundary>>),
     \* line 396
     tryCatchPattern |->
       Concat(<<Alt(<<Lit(<<"t", "r", "y">>), Lit(<<"c", "a", "t", "c",
       "h">>), Lit(<<"f", "i", "n", "a", "l", "l", "y">>)>>),
       WordBoundary>>),
     \* line 397
     propertyPattern |->
       <<Alt(<<Lit(<<"t", "h", "i", "s", ".">>), Concat(<<Lit(<<"c", "o",
       "n", "s", "t">>), Plus(Space), Group(1, Plus(Word)), Star(Space),
       Lit(<<"=">>)>>)>>)>>,
     \* line 398 (not anchored at the start)
     asyncPattern |->
       <<Concat(<<WordBoundary, Lit(<<"a", "s", "y", "n", "c">>),
       WordBoundary>>)>> ]

\* the LanguageConfig of python (lines 402-414); an optional pattern is
\* <<the pattern>>, or <<>> when the config has none
pythonConfig ==
    [
     \* line 403
     functionPattern |->
       Concat(<<Opt(Concat(<<Lit(<<"a", "s", "y", "n", "c">>),
       Plus(Space)>>)), Lit(<<"d", "e", "f">>), Plus(Space), Group(1,
       Plus(Word)), Star(Space), Lit(<<"(">>), Group(2, Star(NoneOf({")"}))),
       Lit(<<")">>), Opt(Concat(<<Star(Space), Lit(<<"-", ">">>),
       Star(Space), Group(3, Plus(Word))>>)), Lit(<<":">>)>>),
     \* line 404
     classPattern |->
       Concat(<<Lit(<<"c", "l", "a", "s", "s">>), Plus(Space), Group(1,
       Plus(Word)), Opt(Concat(<<Star(Space), Lit(<<"(">>), Star(Space),
       Group(2, Plus(NoneOf({")"}))), Star(Space), Lit(<<")">>)>>)),
       Lit(<<":">>)>>),
     \* line 405
     importPattern |->
       Alt(<<Concat(<<Lit(<<"i", "m", "p", "o", "r", "t">>), Plus(Space),
       Plus(Word)>>), Concat(<<Lit(<<"f", "r", "o", "m">>), Plus(Space),
       Plus(Word), Plus(Space), Lit(<<"i", "m", "p", "o", "r", "t">>)>>)>>),
     \* line 406
     variablePattern |->
       Concat(<<Group(1, Plus(Word)), Star(Space), Lit(<<"=">>), Star(Space),
       Group(2, Plus(AnyChar))>>),
     \* line 407
     commentPattern |->
       Lit(<<"#">>),
     \* line 408
     stringPattern |->
       OneOf({"'", "\""}),
     \* line 409
     conditionalPattern |->
       Concat(<<Alt(<<Lit(<<"i", "f">>), Lit(<<"e", "l", "i", "f">>),
       Lit(<<"e", "l", "s", "e">>)>>), Plus(Space)>>),
     \* line 410
     loopPattern |->
       Concat(<<Alt(<<Lit(<<"f", "o", "r">>), Lit(<<"w", "h", "i", "l",
       "e">>)>>), Plus(Space)>>),
     \* line 411
     returnPattern |->
       Concat(<<Lit(<<"r", "e", "t", "u", "r", "n">>), WordBoundary>>),
     \* line 412
     tryCatchPattern |->
       Concat(<<Alt(<<Lit(<<"t", "r", "y">>), Lit(<<"e", "x", "c", "e", "p",
       "t">>), Lit(<<"f", "i", "n", "a", "l", "l", "y">>)>>),
       WordBoundary>>),
     \* no propertyPattern
     propertyPattern |-> <<>>,
     \* line 413 (not anchored at the start)
     asyncPattern |->
       <<Concat(<<WordBoundary, Lit(<<"a", "s", "y", "n", "c">>),
       WordBoundary>>)>> ]

\* the LanguageConfig of java (lines 417-428); an optional pattern is
\* <<the pattern>>, or <<>> when the config has none
javaConfig ==
    [
     \* line 418
     functionPattern |->
       Concat(<<Opt(Alt(<<Lit(<<"p", "u", "b", "l", "i", "c">>), Lit(<<"p",
       "r", "i", "v", "a", "t", "e">>), Lit(<<"p", "r", "o", "t", "e", "c",
       "t", "e", "d">>)>>)), Star(Space), Opt(Lit(<<"s", "t", "a", "t", "i",
       "c">>)), Star(Space), Star(Concat(<<Plus(Word), Plus(Space)>>)),
       Group(1, Plus(Word)), Star(Space), Lit(<<"(">>), Group(2,
       Star(NoneOf({")"}))), Lit(<<")">>), Star(Space),
       Opt(Concat(<<Lit(<<"t", "h", "r", "o", "w", "s">>), Plus(Space),
       Plus(NoneOf({"{"}))>>)), Star(Space), OneOf({"{", ";"})>>),
     \* line 419
     classPattern |->
       Concat(<<Opt(Concat(<<Lit(<<"p", "u", "b", "l", "i", "c">>),
       Plus(Space)>>)), Lit(<<"c", "l", "a", "s", "s">>), Plus(Space),
       Group(1, Plus(Word)), Opt(Concat(<<Plus(Space), Lit(<<"e", "x", "t",
       "e", "n", "d", "s">>), Plus(Space), Group(2, Plus(Word))>>)),
       Opt(Concat(<<Plus(Space), Lit(<<"i", "m", "p", "l", "e", "m", "e",
       "n", "t", "s">>), Plus(Space), Group(3, Plus(NoneOf({"{"})))>>)),
       Star(Space), Lit(<<"{">>)>>),
     \* line 420
     importPattern |->
       Concat(<<Lit(<<"i", "m", "p", "o", "r", "t">>), Plus(Space), Group(1,
       Plus(NoneOf({";"}))), Lit(<<";">>)>>),
     \* line 421
     variablePattern |->
       Concat(<<Opt(Concat(<<Lit(<<"f", "i", "n", "a", "l">>),
       Plus(Space)>>)), Plus(Concat(<<Plus(Word), Plus(Space)>>)), Group(1,
       Plus(Word)), Opt(Concat(<<Star(Space), Lit(<<"=">>), Star(Space),
       Group(2, Plus(AnyChar))>>))>>),
     \* line 422
     commentPattern |->
       Alt(<<Lit(<<"/", "/">>), Lit(<<"/", "*">>)>>),
     \* line 423
     stringPattern |->
       Lit(<<"\"">>),
     \* line 424
     conditionalPattern |->
       Concat(<<Alt(<<Lit(<<"i", "f">>), Concat(<<Lit(<<"e", "l", "s",
       "e">>), Plus(Space), Lit(<<"i", "f">>)>>), Lit(<<"s", "w", "i", "t",
       "c", "h">>)>>), Star(Space), Lit(<<"(">>)>>),
     \* line 425
     loopPattern |->
       Concat(<<Alt(<<Lit(<<"f", "o", "r">>), Lit(<<"w", "h", "i", "l",
       "e">>)>>), Star(Space), Lit(<<"(">>)>>),
     \* line 426
     returnPattern |->
       Concat(<<Lit(<<"r", "e", "t", "u", "r", "n">>), WordBoundary>>),
     \* line 427
     tryCatchPattern |->
       Concat(<<Alt(<<Lit(<<"t", "r", "y">>), Lit(<<"c", "a", "t", "c",
       "h">>), Lit(<<"f", "i", "n", "a", "l", "l", "y">>)>>),
       WordBoundary>>),
     \* no propertyPattern
     propertyPattern |-> <<>>,
     \* no asyncPattern
     asyncPattern |-> <<>> ]

\* the LanguageConfig of cpp (lines 431-442); an optional pattern is
\* <<the pattern>>, or <<>> when the config has none
cppConfig ==
    [
     \* line 432
     functionPattern |->
       Concat(<<Star(Concat(<<Plus(Word), Plus(Space)>>)), Group(1,
       Plus(Word)), Star(Space), Lit(<<"(">>), Group(2, Star(NoneOf({")"}))),
       Lit(<<")">>), Opt(Concat(<<Star(Space), Lit(<<"c", "o", "n", "s",
       "t">>)>>)), Star(Space), Alt(<<Lit(<<"{">>), Lit(<<";">>)>>)>>),
     \* line 433
     classPattern |->
       Concat(<<Lit(<<"c", "l", "a", "s", "s">>), Plus(Space), Group(1,
       Plus(Word)), Opt(Concat(<<Star(Space), Lit(<<":">>), Star(Space),
       Alt(<<Lit(<<"p", "u", "b", "l", "i", "c">>), Lit(<<"p", "r", "i", "v",
       "a", "t", "e">>), Lit(<<"p", "r", "o", "t", "e", "c", "t", "e",
       "d">>)>>), Plus(Space), Group(2, Plus(Word))>>)), Star(Space),
       Lit(<<"{">>)>>),
     \* line 434
     importPattern |->
       Concat(<<Lit(<<"#", "i", "n", "c", "l", "u", "d", "e">>), Star(Space),
       OneOf({"<", "\""}), Plus(NoneOf({">", "\""})), OneOf({">", "\""})>>),
     \* line 435
     variablePattern |->
       Concat(<<Plus(Concat(<<Plus(Word), Plus(Space)>>)), Group(1,
       Plus(Word)), Opt(Concat(<<Star(Space), Lit(<<"=">>), Star(Space),
       Group(2, Plus(AnyChar))>>))>>),
     \* line 436
     commentPattern |->
       Alt(<<Lit(<<"/", "/">>), Lit(<<"/", "*">>)>>),
     \* line 437
     stringPattern |->
       Lit(<<"\"">>),
     \* line 438
     conditionalPattern |->
       Concat(<<Alt(<<Lit(<<"i", "f">>), Concat(<<Lit(<<"e", "l", "s",
       "e">>), Plus(Space), Lit(<<"i", "f">>)>>), Lit(<<"s", "w", "i", "t",
       "c", "h">>)>>), Star(Space), Lit(<<"(">>)>>),
     \* line 439
     loopPattern |->
       Concat(<<Alt(<<Lit(<<"f", "o", "r">>), Lit(<<"w", "h", "i", "l",
       "e">>)>>), Star(Space), Lit(<<"(">>)>>),
     \* line 440
     returnPattern |->
       Concat(<<Lit(<<"r", "e", "t", "u", "r", "n">>), WordBoundary>>),
     \* line 441
     tryCatchPattern |->
       Concat(<<Alt(<<Lit(<<"t", "r", "y">>), Lit(<<"c", "a", "t", "c",
       "h">>)>>), WordBoundary>>),
     \* no propertyPattern
     propertyPattern |-> <<>>,
     \* no asyncPattern
     asyncPattern |-> <<>> ]

\* mutant: a language that has no config is analysed as JavaScript
languageConfigs_Fallback(language) ==
    CASE language = "python" -> <<pythonConfig>>
      [] language = "java" -> <<javaConfig>>
      [] language = "cpp" -> <<cppConfig>>
      [] OTHER -> <<javascriptConfig>>

\* languageConfigs.get(language): <<the config>>, or <<>> for a language
\* that has none
languageConfigs(language) ==
    CASE language = "javascript" -> <<javascriptConfig>>
      [] language = "python" -> <<pythonConfig>>
      [] language = "java" -> <<javaConfig>>
      [] language = "cpp" -> <<cppConfig>>
      [] OTHER -> <<>>

\* String.prototype.includes for one character
includes(s, c) == \E i \in 1..Len(s) : s[i] = c

\* mutant: the variable pattern is tried before the import pattern
patternChecks_VariableFirst ==
    << <<"functionPattern", "function_declaration">>,
       <<"classPattern", "class_declaration">>,
       <<"variablePattern", "variable_declaration">>,
       <<"importPattern", "import_statement">>,
       <<"commentPattern", "comment">>,
       <<"stringPattern", "string_literal">>,
       <<"conditionalPattern", "conditional_statement">>,
       <<"loopPattern", "loop_statement">>,
       <<"returnPattern", "return_statement">>,
       <<"tryCatchPattern", "try_catch">> >>

\* determineCodeType, lines 324-362: the patterns in the order they are
\* tried, each with the code type returned when it matches
patternChecks ==
    << <<"functionPattern", "function_declaration">>,
       <<"classPattern", "class_declaration">>,
       <<"importPattern", "import_statement">>,
       <<"variablePattern", "variable_declaration">>,
       <<"commentPattern", "comment">>,
       <<"stringPattern", "string_literal">>,
       <<"conditionalPattern", "conditional_statement">>,
       <<"loopPattern", "loop_statement">>,
       <<"returnPattern", "return_statement">>,
       <<"tryCatchPattern", "try_catch">> >>

\* the code type of the first of the checks whose pattern matches, or the
\* fallback of lines 364-369
RECURSIVE firstMatch(_, _, _)
firstMatch(checks, config, trimmedLine) ==
    IF checks = <<>>
    THEN IF includes(trimmedLine, "(") /\ includes(trimmedLine, ")")
         THEN "function_call" ELSE "general"
    ELSE IF test(config[Head(checks)[1]], trimmedLine) THEN Head(checks)[2]
    ELSE firstMatch(Tail(checks), config, trimmedLine)

determineCodeType(line, language) ==
    LET trimmedLine == trim(line)
        config == languageConfigs(language)
    IN IF config = <<>> THEN "general"
       ELSE firstMatch(patternChecks, config[1], trimmedLine)

\* ------------------------------------------------ the code type alone
\* the current-line prefixes determineCodeType is applied to
KindLines ==
    { <<"f", "u", "n", "c", "t", "i", "o", "n", " ", "f", "(", ")", " ",
        "{">>,
      <<"c", "l", "a", "s", "s", " ", "A", " ", "{">>,
      <<"i", "m", "p", "o", "r", "t", " ", "x", " ", "f", "r", "o", "m", " ",
        "'", "y", "'">>,
      <<"c", "o", "n", "s", "t", " ", "x", " ", "=", " ", "r", "e", "q", "u",
        "i", "r", "e", "(", "'", "y", "'", ")">>,
      <<" ", " ", "c", "o", "n", "s", "t", " ", "x", " ", "=", " ", "r", "e",
        "q", "u", "i", "r", "e", "(", "'", "y", "'", ")", " ", " ">>,
      <<"c", "o", "n", "s", "t", " ", "x", " ", "=", " ", "1">>,
      <<"/", "/", " ", "c">>,
      <<"'", "s", "'">>,
      <<"i", "f", " ", "(", "x", ")", " ", "{">>,
      <<"f", "o", "r", " ", "(", ";", ";", ")", " ", "{">>,
      <<"r", "e", "t", "u", "r", "n", " ", "x">>,
      <<"t", "r", "y", " ", "{">>,
      <<"f", "(", "x", ")">>,
      <<"x">>,
      <<>>,
      <<"c", "o", "n", "s", "t", " ", "f", " ", "=", " ", "(", "a", ")", " ",
        "=", ">", " ", "1">>,
      <<"l", "e", "t", " ", "g", " ", "=", " ", "f", "u", "n", "c", "t", "i",
        "o", "n">>,
      <<"d", "e", "f", " ", "f", "(", "a", ")", ":">>,
      <<"c", "l", "a", "s", "s", " ", "A", ":">>,
      <<"i", "m", "p", "o", "r", "t", " ", "o", "s">>,
      <<"#", " ", "c">>,
      <<"x", " ", "=", " ", "1">>,
      <<"i", "f", " ", "x", ":">>,
      <<"f", "o", "r", " ", "x", " ", "i", "n", " ", "y", ":">>,
      <<"e", "x", "c", "e", "p", "t", " ", "E", ":">>,
      <<"i", "n", "t", " ", "f", "(", "i", "n", "t", " ", "a", ")", " ",
        "{">>,
      <<"i", "m", "p", "o", "r", "t", " ", "a", ".", "b", ";">>,
      <<"#", "i", "n", "c", "l", "u", "d", "e", " ", "<", "a", ">">>,
      <<"/", "*", " ", "c">>,
      <<"w", "h", "i", "l", "e", " ", "(", "x", ")", " ", "{">> }

\* the language identifiers of the documents: the four that have a config
\* and one that has none
Languages == {"javascript", "python", "java", "cpp", "plaintext"}

KindInit ==
    /\ PipelineInit
    /\ input \in [line : KindLines, language : Languages]
    /\ output = <<>>

KindApply ==
    /\ output = <<>>
    /\ output' = << determineCodeType(input.line, input.language) >>
    /\ UNCHANGED <<input, pipeline>>

KindNext == KindApply

KindSpec == KindInit /\ [][KindNext]_vars

\* ------------------------------------------------------ enclosing scopes
\* RegExp.prototype.test for a pattern that does not start with ^: a match
\* may begin at any position
search(re, s) == \E i \in 1..(Len(s) + 1) : matchAt(re, s, i, NoCaptures) # <<>>

\* match[n], the text group n captured, or undefined
group(match, n) == match[1].caps[n]

\* match[n] || default
groupOr(match, n, default) ==
    IF group(match, n).matched /\ group(match, n).text # <<>>
    THEN group(match, n).text ELSE default

anonymous == <<"a", "n", "o", "n", "y", "m", "o", "u", "s">>

\* mutant: the pieces of the parameter list are not trimmed
extractParameters_NoTrim(paramStr) ==
    LET params == SelectSeq(split(paramStr, ","), LAMBDA p : p # <<>>)
    IN [k \in 1..Len(params) |-> split(split(params[k], "=")[1], ":")[1]]

\* extractParameters: the parameter list split at the commas, the empty
\* pieces dropped, default values and type annotations cut off
extractParameters(paramStr) ==
    LET pieces == split(paramStr, ",")
        params == SelectSeq([k \in 1..Len(pieces) |-> trim(pieces[k])],
                            LAMBDA p : p # <<>>)
    IN [k \in 1..Len(params) |->
           trim(split(split(params[k], "=")[1], ":")[1])]

\* the loop of analyzeFunctionScope from `line` down to line 0: <<the scope
\* of the first line that matches the function pattern>>, or <<>> (null)
RECURSIVE functionScopeFrom(_, _, _)
functionScopeFrom(doc, config, line) ==
    IF line < 0 THEN <<>>
    ELSE LET trimmedLine == trim(lineAt(doc, line))
             functionMatch == exec(config.functionPattern, trimmedLine)
         IN IF functionMatch # <<>>
            THEN << [name |-> groupOr(functionMatch, 1, anonymous),
                     parameters |->
                         extractParameters(groupOr(functionMatch, 2, <<>>)),
                     returnType |-> group(functionMatch, 3),
                     startLine |-> line,
                     isAsync |-> /\ config.asyncPattern # <<>>
                                 /\ search(config.asyncPattern[1], trimmedLine)] >>
            ELSE functionScopeFrom(doc, config, line - 1)

analyzeFunctionScope(doc, position, language) ==
    LET config == languageConfigs(language)
    IN IF config = <<>> THEN <<>>
       ELSE functionScopeFrom(doc, config[1], position.line)

\* extractMethods: the names of the function declarations on the lines
\* after startLine and before endLine, from line `line` on
RECURSIVE extractMethods(_, _, _, _)
extractMethods(doc, config, line, endLine) ==
    IF line >= endLine THEN <<>>
    ELSE LET methodMatch == exec(config.functionPattern, trim(lineAt(doc, line)))
         IN (IF methodMatch # <<>> THEN <<groupOr(methodMatch, 1, anonymous)>>
             ELSE <<>>)
            \o extractMethods(doc, config, line + 1, endLine)

\* extractProperties: what group 1 of the property pattern captured on
\* each of those lines that matches it; nothing when the config has no
\* property pattern
RECURSIVE extractProperties(_, _, _, _)
extractProperties(doc, config, line, endLine) ==
    IF line >= endLine \/ config.propertyPattern = <<>> THEN <<>>
    ELSE LET propertyMatch == exec(config.propertyPattern[1],
                                   trim(lineAt(doc, line)))
         IN (IF propertyMatch # <<>> THEN <<group(propertyMatch, 1)>>
             ELSE <<>>)
            \o extractProperties(doc, config, line + 1, endLine)

\* the loop of analyzeClassScope from `line` down to line 0
RECURSIVE classScopeFrom(_, _, _, _)
classScopeFrom(doc, config, line, position) ==
    IF line < 0 THEN <<>>
    ELSE LET classMatch == exec(config.classPattern, trim(lineAt(doc, line)))
         IN IF classMatch # <<>>
            THEN << [name |-> group(classMatch, 1),
                     extends |-> group(classMatch, 2),
                     startLine |-> line,
                     methods |->
                         extractMethods(doc, config, line + 1, position.line),
                     properties |->
                         extractProperties(doc, config, line + 1,
                                           position.line)] >>
            ELSE classScopeFrom(doc, config, line - 1, position)

analyzeClassScope(doc, position, language) ==
    LET config == languageConfigs(language)
    IN IF config = <<>> THEN <<>>
       ELSE classScopeFrom(doc, config[1], position.line, position)

\* ---------------------------------------------- the two scopes alone
\* the lines the documents are made of
ScopeLines ==
    {
      <<"f", "u", "n", "c", "t", "i", "o", "n", " ", "o", "u", "t", "e",
        "r", "(", ")", " ", "{">>,
      <<" ", " ", "c", "o", "n", "s", "t", " ", "i", "n", "n", "e", "r",
        " ", "=", " ", "(", "a", ")", " ", "=", ">", " ", "{">>,
      <<"l", "e", "t", " ", "g", " ", "=", " ", "a", "s", "y", "n", "c",
        " ", "f", "u", "n", "c", "t", "i", "o", "n">>,
      <<"c", "l", "a", "s", "s", " ", "A", " ", "e", "x", "t", "e", "n",
        "d", "s", " ", "B", " ", "{">>,
      <<"x">>,
      <<"d", "e", "f", " ", "f", "(", "a", ",", " ", "b", "=", "1", ")",
        " ", "-", ">", " ", "i", "n", "t", ":">>,
      <<"i", "n", "t", " ", "f", "(", "i", "n", "t", " ", "a", ")", " ", "{">> }

\* the number of lines of the longest document
MaxLines == 3

\* documents of one to MaxLines lines, the cursor on one of their lines
ScopeInputs ==
    { in \in [doc : UNION { [1..n -> ScopeLines] : n \in 1..MaxLines },
              line : 0..(MaxLines - 1),
              language : Languages] : in.line < Len(in.doc) }

ScopeInit ==
    /\ PipelineInit
    /\ input \in ScopeInputs
    /\ output = <<>>

\* lines 78-79 of analyzeContext: the two scopes, each on its own
ScopeApply ==
    /\ output = <<>>
    /\ LET position == [line |-> input.line, character |-> 0]
       IN output' =
              << [functionScope |->
                      analyzeFunctionScope(input.doc, position, input.language),
                  classScope |->
                      analyzeClassScope(input.doc, position, input.language)] >>
    /\ UNCHANGED <<input, pipeline>>

ScopeNext == ScopeApply

ScopeSpec == ScopeInit /\ [][ScopeNext]_vars

\* ------------------------------------------------------- analyzeContext
Max(a, b) == IF a > b THEN a ELSE b

\* mutant: the line contextSize lines after the cursor's is left out
getSurroundingLines_Short(doc, position) ==
    LET contextSize == 10
        startLine == Max(0, position.line - contextSize)
        endLine == Min(Len(doc) - 1, position.line + contextSize)
    IN [previousLines |->
            [i \in 1..(position.line - startLine) |->
                lineAt(doc, startLine + i - 1)],
        nextLines |->
            [i \in 1..(endLine - position.line - 1) |->
                lineAt(doc, position.line + i)]]

\* getSurroundingLines: up to contextSize lines on each side of the cursor's
getSurroundingLines(doc, position) ==
    LET contextSize == 10
        startLine == Max(0, position.line - contextSize)
        endLine == Min(Len(doc) - 1, position.line + contextSize)
    IN [previousLines |->
            [i \in 1..(position.line - startLine) |->
                lineAt(doc, startLine + i - 1)],
        nextLines |->
            [i \in 1..(endLine - position.line) |->
                lineAt(doc, position.line + i)]]

\* mutant: the matching lines are kept untrimmed
RECURSIVE importsFrom_Untrimmed(_, _, _)
importsFrom_Untrimmed(doc, config, line) ==
    IF line >= Len(doc) THEN <<>>
    ELSE LET lineText == lineAt(doc, line)
         IN (IF test(config.importPattern, trim(lineText))
             THEN <<lineText>> ELSE <<>>)
            \o importsFrom_Untrimmed(doc, config, line + 1)

\* the loop of extractImportStatements from `line` to the last line: the
\* trimmed text of every line that matches the import pattern
RECURSIVE importsFrom(_, _, _)
importsFrom(doc, config, line) ==
    IF line >= Len(doc) THEN <<>>
    ELSE LET lineText == lineAt(doc, line)
         IN (IF test(config.importPattern, trim(lineText))
             THEN <<trim(lineText)>> ELSE <<>>)
            \o importsFrom(doc, config, line + 1)

extractImportStatements(doc, language) ==
    LET config == languageConfigs(language)
    IN IF config = <<>> THEN <<>> ELSE importsFrom(doc, config[1], 0)

\* mutant: every variable found is local
RECURSIVE variablesFrom_AllLocal(_, _, _, _)
variablesFrom_AllLocal(doc, config, line, position) ==
    IF line < 0 THEN <<>>
    ELSE LET variableMatch ==
                 exec(config.variablePattern, trim(lineAt(doc, line)))
         IN (IF variableMatch # <<>>
             THEN << [name |-> group(variableMatch, 1),
                      type |-> group(variableMatch, 2),
                      value |-> group(variableMatch, 3),
                      line |-> line,
                      scope |-> "local"] >>
             ELSE <<>>)
            \o variablesFrom_AllLocal(doc, config, line - 1, position)

\* the loop of extractVariables from `line` down to line 0
RECURSIVE variablesFrom(_, _, _, _)
variablesFrom(doc, config, line, position) ==
    IF line < 0 THEN <<>>
    ELSE LET variableMatch ==
                 exec(config.variablePattern, trim(lineAt(doc, line)))
         IN (IF variableMatch # <<>>
             THEN << [name |-> group(variableMatch, 1),
                      type |-> group(variableMatch, 2),
                      value |-> group(variableMatch, 3),
                      line |-> line,
                      scope |-> IF line = position.line
                                THEN "local" ELSE "global"] >>
             ELSE <<>>)
            \o variablesFrom(doc, config, line - 1, position)

extractVariables(doc, position, language) ==
    LET config == languageConfigs(language)
    IN IF config = <<>> THEN <<>>
       ELSE variablesFrom(doc, config[1], position.line, position)

\* an exception leaves analyzeContext (it has no try)
Raises == [raised |-> TRUE, context |-> <<>>]

\* analyzeContext: line 71 reads the cursor's line before anything else
analyzeContext(doc, position, language) ==
    IF lineAtThrows(doc, position.line) THEN Raises
    ELSE LET currentLine == lineAt(doc, position.line)
             currentLinePrefix == substring(currentLine, position.character)
             surrounding == getSurroundingLines(doc, position)
         IN [raised |-> FALSE,
             context |->
                << [language |-> language,
                    currentLine |-> currentLinePrefix,
                    previousLines |-> surrounding.previousLines,
                    nextLines |-> surrounding.nextLines,
                    functionScope |->
                        analyzeFunctionScope(doc, position, language),
                    classScope |-> analyzeClassScope(doc, position, language),
                    importStatements |->
                        extractImportStatements(doc, language),
                    variables |-> extractVariables(doc, position, language),
                    codeType |-> determineCodeType(currentLinePrefix, language),
                    indentation |-> getIndentation(currentLine)] >>]

\* the lines the analysed documents are made of
AnalyzeLines ==
    {
      <<"d", "e", "f", " ", "a", "d", "d", "(", "a", ",", " ", "b", ")", ":">>,
      <<" ", " ", " ", " ", "t", "o", "t", "a", "l", " ", "=", " ", "a",
        " ", "+", " ", "b">>,
      <<" ", " ", " ", " ">>,
      <<"i", "m", "p", "o", "r", "t", " ", "o", "s">>,
      <<"c", "o", "n", "s", "t", " ", "x", " ", "=", " ", "r", "e", "q",
        "u", "i", "r", "e", "(", "'", "y", "'", ")">>,
      <<" ", " ", "f", "r", "o", "m", " ", "a", " ", "i", "m", "p", "o",
        "r", "t", " ", "b">> }

\* documents of no line to MaxLines lines, the cursor on one of their lines
\* or on a line they no longer have
AnalyzeInputs ==
    [doc : UNION { [1..n -> AnalyzeLines] : n \in 0..MaxLines },
     line : 0..MaxLines,
     character : {0, 4},
     language : Languages]

AnalyzeInit ==
    /\ PipelineInit
    /\ input \in AnalyzeInputs
    /\ output = <<>>

AnalyzeApply ==
    /\ output = <<>>
    /\ output' =
           << analyzeContext(input.doc,
                             [line |-> input.line, character |-> input.character],
                             input.language) >>
    /\ UNCHANGED <<input, pipeline>>

AnalyzeNext == AnalyzeApply

AnalyzeSpec == AnalyzeInit /\ [][AnalyzeNext]_vars

\* ------------------------------------------ the surrounding lines alone
\* the number of lines of the longest document whose surrounding lines are
\* collected: more than contextSize lines on each side of a cursor
MaxDocLines == 23

\* a document of n lines, each line the text of its own number
NumberedDocument(n) == [i \in 1..n |-> toString(i - 1)]

SurroundInputs ==
    { in \in [lineCount : 1..MaxDocLines, line : 0..(MaxDocLines - 1)] :
          in.line < in.lineCount }

SurroundInit ==
    /\ PipelineInit
    /\ input \in SurroundInputs
    /\ output = <<>>

\* the analyzer's getSurroundingLines and the provider's getContext for the
\* same document and cursor
SurroundApply ==
    /\ output = <<>>
    /\ LET doc == NumberedDocument(input.lineCount)
           position == [line |-> input.line, character |-> 0]
       IN output' = << [analyzer |-> getSurroundingLines(doc, position),
                        provider |-> getContext(doc, position)] >>
    /\ UNCHANGED <<input, pipeline>>

SurroundNext == SurroundApply

SurroundSpec == SurroundInit /\ [][SurroundNext]_vars

\* the values the settings cacheEnabled and delay take (getConfig, and
\* validateConfig for the range of delay).  AICompletionProvider reads the
\* setting `enabled` only, so its executions are the same under each of them
Configurations == [cacheEnabled : BOOLEAN, delay : {100, 500, 5000}]

\* ===================================================================
\* Properties
\* ===================================================================

\* a string that is empty or holds white space only
Blank(str) == \A i \in 1..Len(str) : IsWhitespace(str[i])

\* this step is a call of provideCompletionItems
IsCall == issued' = issued + 1

\* the call made in this step: what it read at entry
NewCall ==
    IF issued' \in DOMAIN requests'
    THEN [cacheKey |-> requests'[issued'].cacheKey,
          token |-> requests'[issued'].token, enabled |-> TRUE]
    ELSE [cacheKey |-> settled'.cacheKey, token |-> settled'.token,
          enabled |-> settled'.enabled]

\* the call made in this step returned at once / was scheduled at time now
CallReturned == issued' \notin DOMAIN requests'
CallScheduled ==
    /\ issued' \in DOMAIN requests'
    /\ requests'[issued'].pc = "scheduled"
    /\ issued' \in DOMAIN timers'
    /\ timers'[issued'] = now

\* in this step the timer of r fires: its delayed execution runs
Fires(r) ==
    /\ r \in DOMAIN timers
    /\ r \notin DOMAIN timers'
    /\ ~(r \in DOMAIN requests' /\ requests'[r].pc = "cleared")

\* in this step the execution of r issues its backend call
IssuesBackendCall(r) ==
    Fires(r) /\ r \in DOMAIN requests' /\ requests'[r].pc = "awaiting"

\* in this step the backend call of r returns and its result is processed
ProcessesResponse(r) ==
    /\ r \in DOMAIN requests
    /\ requests[r].pc = "awaiting"
    /\ r \notin DOMAIN requests'

\* C1: of the requests for one key that arrive before the first of their
\* delayed executions fires, only the last one issues a backend call: when an
\* execution issues its call, no later request for its key is still scheduled
C1_OnlyLastOfBurstCalls ==
    [][\A r \in DOMAIN timers :
          IssuesBackendCall(r) =>
              ~\E q \in DOMAIN timers' :
                  q > r /\ requests'[q].cacheKey = requests[r].cacheKey]_vars

\* C2: each cache key has at most one delayed execution that is scheduled and
\* has not fired
C2_AtMostOneScheduledPerKey ==
    \A r, q \in DOMAIN timers :
        r # q => requests[r].cacheKey # requests[q].cacheKey

\* C3: a call (enabled, token not cancelled) for a key whose cache entry is
\* younger than CACHE_DURATION returns exactly <<the stored text>> and changes
\* neither the cache nor the debounce table nor a timer nor a pending call nor
\* the counters: no backend call, nothing scheduled or cancelled
C3_CacheHitPath ==
    [][\A k \in DOMAIN cache :
          (/\ IsCall
           /\ NewCall.cacheKey = k /\ NewCall.enabled /\ ~NewCall.token
           /\ now - cache[k].timestamp < CACHE_DURATION)
          => /\ CallReturned
             /\ settled'.result = <<cache[k].text>>
             /\ UNCHANGED <<cache, debounceMap, timers, requests, stats>>]_vars

C3_Witness ==
    /\ settled.path = "hit"
    /\ settled.result \in {<<(<<"x">>)>>, <<(<<"y">>)>>}

\* C4: an entry with timestamp T is returned verbatim to a call at time now
\* when now - T < 30000, and when now - T >= 30000 (the boundary included) the
\* call does not return it: it is scheduled for a fresh debounce cycle
C4_CacheTTL ==
    [][\A k \in DOMAIN cache :
          (IsCall /\ NewCall.cacheKey = k /\ NewCall.enabled /\ ~NewCall.token)
          => IF now - cache[k].timestamp < 30000
             THEN CallReturned /\ settled'.result = <<cache[k].text>>
             ELSE CallScheduled /\ settled'.result = <<>>]_vars

\* a call has just been scheduled although the cache holds an entry for its
\* key, of age exactly 30000
C4_Witness ==
    \E r \in DOMAIN timers :
        /\ timers[r] = now
        /\ requests[r].cacheKey \in DOMAIN cache
        /\ now - cache[requests[r].cacheKey].timestamp = 30000

\* C5: a delayed execution that fires with its token cancelled issues no
\* backend call, leaves the cache and the token counters unchanged, and its
\* call returns the empty sequence
C5_CancellationPurity ==
    [][\A r \in DOMAIN timers :
          (Fires(r) /\ requests[r].token)
          => /\ r \notin DOMAIN requests'
             /\ settled'.cacheKey = requests[r].cacheKey
             /\ settled'.result = <<>>
             /\ UNCHANGED <<cache, stats>>]_vars

C5_Witness ==
    /\ settled.path = "fireCancelled"
    /\ settled.token
    /\ settled.result = <<>>

\* C6: a response that arrives for a call whose token was cancelled while the
\* backend call was in flight is dropped: empty result, cache and counters
\* unchanged
C6_ResponseDroppedWhenCancelled ==
    [][\A r \in DOMAIN requests :
          (ProcessesResponse(r) /\ requests[r].token)
          => /\ settled'.result = <<>>
             /\ UNCHANGED <<cache, stats>>]_vars

\* C7: every pending call whose token is cancelled eventually settles
C7_CancelledEventuallySettles ==
    \A r \in 1..MaxReq :
        (r \in DOMAIN requests /\ requests[r].token) ~> (r \notin DOMAIN requests)

\* C8: a call made while the feature is disabled, or with its token already
\* cancelled, returns the empty sequence at once and leaves the cache, the
\* debounce table, the timers, the pending calls and the counters unchanged
C8_EntryRejectedFrame ==
    [][(IsCall /\ (~NewCall.enabled \/ NewCall.token))
          => /\ CallReturned
             /\ settled'.result = <<>>
             /\ UNCHANGED <<cache, debounceMap, timers, requests, stats>>]_vars

C8_Witness ==
    /\ settled.path = "cancelled"
    /\ settled.enabled /\ settled.token
    /\ settled.result = <<>>
    /\ DOMAIN timers # {}

\* C9: a delayed execution (token not cancelled) that fires while the prefix
\* up to the cursor is empty or white space returns the empty sequence,
\* issues no backend call and leaves the cache and the counters unchanged
C9_EmptyPromptShortCircuit ==
    [][\A r \in DOMAIN timers :
          (/\ Fires(r) /\ ~requests[r].token
           /\ Blank(IF r \in DOMAIN requests'
                    THEN requests'[r].request.prompt ELSE settled'.prompt))
          => /\ r \notin DOMAIN requests'
             /\ settled'.result = <<>>
             /\ UNCHANGED <<cache, stats>>]_vars

C9_Witness ==
    /\ settled.path = "emptyPrompt"
    /\ settled.prompt = <<" ">>
    /\ settled.result = <<>>

\* C10: a backend result with success = FALSE, or with a text that is empty
\* or white space, makes the call return the empty sequence and leaves the
\* cache as it was
C10_FailureOrEmptyText ==
    [][\A r \in DOMAIN requests :
          (/\ ProcessesResponse(r)
           /\ (~settled'.response.success \/ Blank(settled'.response.text)))
          => /\ settled'.result = <<>>
             /\ cache' = cache]_vars

C10_Witness ==
    /\ settled.path = "emptyText"
    /\ settled.response.text = <<" ">>
    /\ settled.result = <<>>
    /\ cache # EmptyMap

\* C11: provideCompletionItems never raises to its caller: every call that
\* returns hands back items, and a call in which something was thrown (by
\* building the cache key, by building the request, by the backend call or
\* by formatting the suggestion) hands back no item
C11_NeverRaises ==
    settled.path # "none"
        => /\ ~settled.raised
           /\ settled.threw # "none" => settled.items = <<>>

\* formatting threw after a successful backend result had been cached
C11_Witness ==
    /\ settled.path = "success"
    /\ settled.threw = "format"
    /\ settled.result # <<>>
    /\ settled.cacheKey \in DOMAIN cache

\* C12: after a successful backend result with non-blank text for a call
\* whose token is not cancelled, the cache maps the call's key to an entry
\* holding exactly that text and the time of the write, and the call
\* resolves with exactly <<that text>>
C12_SuccessCachesAndResolves ==
    (/\ settled.response.success
     /\ ~Blank(settled.response.text)
     /\ ~settled.token)
    => /\ settled.cacheKey \in DOMAIN cache
       /\ cache[settled.cacheKey].text = settled.response.text
       /\ cache[settled.cacheKey].timestamp = now
       /\ settled.result = <<settled.response.text>>

\* a result is cached after the first instant a timer can fire, when
\* another result has been counted already
C12_Witness ==
    /\ settled.response.success
    /\ settled.response.text = <<"y">>
    /\ ~settled.token
    /\ cache[settled.cacheKey].text = <<"y">>
    /\ now > DEBOUNCE_DELAY
    /\ stats.requestCount = 1

\* C13: addTokens is invoked exactly once for every successful backend
\* result that carries token counts, whatever the counts (0 included), and
\* never for a failed one
C13_SinkOncePerSuccess ==
    [][\A r \in DOMAIN requests :
          ProcessesResponse(r)
          => stats'.requestCount = stats.requestCount +
                 (IF /\ settled'.response.success
                     /\ settled'.response.inputTokens # Undefined
                     /\ settled'.response.outputTokens # Undefined
                  THEN 1 ELSE 0)]_vars

\* C14: no call of provideCompletionItems (a cache hit in particular)
\* changes a token counter, and the counters change only in a step that
\* processes the result of a backend call, which then counts one request and
\* the tokens of that result: the sink is invoked at most once per backend call
C14_NoDoubleCounting ==
    [][/\ IsCall => stats' = stats
       /\ stats' # stats
            => /\ \E r \in DOMAIN requests : ProcessesResponse(r)
               /\ stats'.requestCount = stats.requestCount + 1
               /\ stats'.inputTokens =
                      stats.inputTokens + settled'.response.inputTokens
               /\ stats'.outputTokens =
                      stats.outputTokens + settled'.response.outputTokens
               /\ stats'.totalTokens =
                      stats.totalTokens + settled'.response.inputTokens
                                        + settled'.response.outputTokens]_vars

\* a call is served from the cache after a request has been counted
C14_Witness ==
    /\ settled.path = "hit"
    /\ settled.result # <<>>
    /\ stats.requestCount = 1
    /\ stats.totalTokens = 3

\* C15: while the setting cacheEnabled is false no call is answered from
\* the cache and the cache holds no entry
C15_CacheDisabledBypassesCache ==
    \A config \in Configurations :
        ~config.cacheEnabled
            => /\ cache = EmptyMap
               /\ ~(settled.path = "hit" /\ settled.result # <<>>)

\* C16: a delayed execution fires once the configured delay has passed since
\* its call, and not before
C16_ConfiguredDelay ==
    [][\A config \in Configurations : \A r \in DOMAIN timers :
          Fires(r) => now - timers[r] >= config.delay]_vars

\* C17: two calls get the same cache key only if their document, line,
\* column and prefix up to the cursor are all the same
C17_KeyInjective ==
    (Len(output) = 1 /\ output[1][1] = output[1][2])
        => /\ input[1].fsPath = input[2].fsPath
           /\ input[1].line = input[2].line
           /\ input[1].character = input[2].character
           /\ KeyPrefix(input[1]) = KeyPrefix(input[2])

\* the lines of a suggestion, the first as it is and each later one led by
\* indent, joined by newlines
Reindented(suggestion, indent) ==
    LET lines == split(suggestion, "\n")
    IN join([i \in 1..Len(lines) |->
                IF i = 1 THEN lines[i] ELSE indent \o lines[i]], <<"\n">>)

\* C18: the insert text of a suggestion is its first line followed by its
\* other lines, each led by the leading white space of the cursor line,
\* whatever the cursor column (a one-line suggestion is returned unchanged)
C18_InsertTextIndent ==
    Len(output) = 1
        => output[1] = Reindented(input.suggestion, getIndentation(input.text))

\* the code type the stated precedence gives a line under a config (<<the
\* config>>, or <<>> when the language has none): that of the first pattern
\* in the order function, class, import, variable, comment, string,
\* conditional, loop, return, try/catch that matches the trimmed line, else
\* function_call when the line holds both parentheses, else general
PrecedenceKind(line, config) ==
    LET order == << <<"functionPattern", "function_declaration">>,
                    <<"classPattern", "class_declaration">>,
                    <<"importPattern", "import_statement">>,
                    <<"variablePattern", "variable_declaration">>,
                    <<"commentPattern", "comment">>,
                    <<"stringPattern", "string_literal">>,
                    <<"conditionalPattern", "conditional_statement">>,
                    <<"loopPattern", "loop_statement">>,
                    <<"returnPattern", "return_statement">>,
                    <<"tryCatchPattern", "try_catch">> >>
        hits == {k \in 1..Len(order) :
                    config # <<>> /\ test(config[1][order[k][1]], trim(line))}
    IN IF hits # {}
       THEN order[CHOOSE k \in hits : \A h \in hits : k <= h][2]
       ELSE IF (\E i \in 1..Len(line) : line[i] = "(")
               /\ (\E i \in 1..Len(line) : line[i] = ")")
       THEN "function_call" ELSE "general"

\* the JavaScript line const x = require('y')
RequireLine ==
    <<"c", "o", "n", "s", "t", " ", "x", " ", "=", " ", 
    "r", "e", "q", "u", "i", "r", "e", "(", "'", "y", "'", ")">>

\* C19 as stated: for every line and language the code type is the one the
\* precedence gives (a language without a config has no pattern that
\* matches, so its lines are function_call or general)
C19_KindPrecedence_AnyLanguage ==
    Len(output) = 1
        => output[1] = PrecedenceKind(input.line, languageConfigs(input.language))

\* C19, for the languages that have a config: the code type is the one the
\* precedence gives, so the JavaScript line const x = require('y') is an
\* import_statement; for a language without a config it is general
C19_KindPrecedence ==
    Len(output) = 1
        => /\ languageConfigs(input.language) # <<>>
                => output[1] = PrecedenceKind(input.line,
                                              languageConfigs(input.language))
           /\ languageConfigs(input.language) = <<>> => output[1] = "general"
           /\ (/\ input.language = "javascript"
               /\ trim(input.line) = RequireLine)
                => output[1] = "import_statement"

\* the JavaScript line const x = require('y'), which the import pattern and
\* the variable pattern both match, has been classified
C19_Witness ==
    /\ Len(output) = 1
    /\ input.language = "javascript"
    /\ trim(input.line) = RequireLine
    /\ test(javascriptConfig.importPattern, trim(input.line))
    /\ test(javascriptConfig.variablePattern, trim(input.line))
    /\ output[1] = "import_statement"

\* ---------------------------------------------------------------- C20
\* the lines up to the cursor's whose trimmed text matches the pattern
MatchingLines(doc, pattern, cursor) ==
    { l \in 0..cursor : test(pattern, trim(lineAt(doc, l))) }

Greatest(lines) == CHOOSE l \in lines : \A k \in lines : k <= l

\* the identifier a declaration declares: what the one name group that
\* took part in the match captured
DeclaredName(pattern, text) ==
    LET match == exec(pattern, trim(text))
        n == CHOOSE k \in 1..3 :
                 /\ group(match, k).matched
                 /\ \A h \in 1..(k - 1) : ~group(match, h).matched
    IN group(match, n).text

\* C20: for a language that has a config, the function scope returned is
\* absent when no line from line 0 to the cursor's matches the function
\* pattern; otherwise its startLine is the greatest such line and its name
\* is the identifier declared on that line.  The class scope follows the
\* same rule with the class pattern, whatever the function scope is.
C20_ScopeInnermostWins ==
    (output # <<>> /\ languageConfigs(input.language) # <<>>) =>
        LET config == languageConfigs(input.language)[1]
            functions == MatchingLines(input.doc, config.functionPattern,
                                       input.line)
            classes == MatchingLines(input.doc, config.classPattern,
                                     input.line)
            functionScope == output[1].functionScope
            classScope == output[1].classScope
        IN /\ (functionScope = <<>>) = (functions = {})
           /\ functionScope # <<>> =>
                 /\ functionScope[1].startLine = Greatest(functions)
                 /\ functionScope[1].name =
                        DeclaredName(config.functionPattern,
                                     lineAt(input.doc, Greatest(functions)))
           /\ (classScope = <<>>) = (classes = {})
           /\ classScope # <<>> =>
                 /\ classScope[1].startLine = Greatest(classes)
                 /\ classScope[1].name.text =
                        DeclaredName(config.classPattern,
                                     lineAt(input.doc, Greatest(classes)))

\* ---------------------------------------------------------------- C21
\* the text of the cursor's line
CursorLine == lineAt(input.doc, input.line)

\* s is the white space that leads the line
LeadsLine(s, line) ==
    /\ Len(s) <= Len(line)
    /\ s = SubSeq(line, 1, Len(s))
    /\ \A i \in 1..Len(s) : s[i] \in {" ", "\t", "\n"}
    /\ Len(s) < Len(line) => line[Len(s) + 1] \notin {" ", "\t", "\n"}

\* C21: for a language that has no registered config and a cursor on a line
\* of the document, analyzeContext returns (it does not throw) a context
\* with no function scope, no class scope, no imports, no variables and code
\* type general, whose current line is the cursor line's text before the
\* cursor, whose previous and next lines are the up to ten lines on each
\* side, and whose indentation is the white space leading the cursor's line.
C21_UnknownLanguageNeutral ==
    (/\ output # <<>>
     /\ input.language \notin {"javascript", "python", "java", "cpp"}
     /\ input.line < Len(input.doc)) =>
        /\ ~output[1].raised
        /\ output[1].context # <<>>
        /\ LET context == output[1].context[1]
               first == IF input.line > 10 THEN input.line - 10 ELSE 0
               last == IF input.line + 10 < Len(input.doc) - 1
                       THEN input.line + 10 ELSE Len(input.doc) - 1
           IN /\ context.functionScope = <<>>
              /\ context.classScope = <<>>
              /\ context.importStatements = <<>>
              /\ context.variables = <<>>
              /\ context.codeType = "general"
              /\ context.language = input.language
              /\ context.currentLine =
                     SubSeq(CursorLine, 1,
                            IF input.character < Len(CursorLine)
                            THEN input.character ELSE Len(CursorLine))
              /\ context.previousLines = SubSeq(input.doc, first + 1, input.line)
              /\ context.nextLines = SubSeq(input.doc, input.line + 2, last + 1)
              /\ LeadsLine(context.indentation, CursorLine)

\* a document of an unknown language with an import, a function declaration
\* and an indented assignment on the cursor's line has been analysed
C21_Witness ==
    /\ output # <<>>
    /\ input.language = "plaintext"
    /\ input.doc = <<<<"i", "m", "p", "o", "r", "t", " ", "o", "s">>,
          <<"d", "e", "f", " ", "a", "d", "d", "(", "a", ",", " ", "b",
                ")", ":">>, <<" ", " ", " ", " ", "t", "o", "t", "a", "l",
                      " ", "=", " ", "a", " ", "+", " ", "b">>>>
    /\ input.line = 2
    /\ input.character = 4
    /\ ~output[1].raised

\* ---------------------------------------------------------------- C22
\* C22: analyzeContext never throws: for every document and cursor, the
\* document without lines and a cursor line outside the document included,
\* it returns a context.
C22_AnalyzeNeverRaises ==
    output # <<>> => (~output[1].raised /\ output[1].context # <<>>)

\* ---------------------------------------------------------------- C23
\* the document of the scenario, and the cursor at the end of its last line
AddDocument ==
    <<<<"d", "e", "f", " ", "a", "d", "d", "(", "a", ",", " ", "b", ")",
          ":">>, <<" ", " ", " ", " ", "t", "o", "t", "a", "l", " ", "=",
                " ", "a", " ", "+", " ", "b">>, <<" ", " ", " ", " ">>>>

AddScenario ==
    [doc |-> AddDocument, line |-> 2, character |-> 4, language |-> "python"]

\* C23: analysed as python with the cursor at line 2, column 4, the document
\* def add(a, b): / total = a + b (indented by four) / four spaces gives the
\* function scope add with parameters a and b declared on line 0, the code
\* type general and an indentation of four spaces.
C23_AddScenario ==
    (output # <<>> /\ input = AddScenario) =>
        /\ ~output[1].raised
        /\ output[1].context # <<>>
        /\ LET context == output[1].context[1]
           IN /\ context.functionScope # <<>>
              /\ context.functionScope[1].name = <<"a", "d", "d">>
              /\ context.functionScope[1].parameters = << <<"a">>, <<"b">> >>
              /\ context.functionScope[1].startLine = 0
              /\ context.codeType = "general"
              /\ context.indentation = <<" ", " ", " ", " ">>

\* the scenario has been analysed
C23_Witness ==
    /\ output # <<>>
    /\ input = AddScenario
    /\ ~output[1].raised

\* ---------------------------------------------------------------- C24
\* the backend call of r is in flight
InFlight(rs, r) == r \in DOMAIN rs /\ rs[r].pc = "awaiting"

\* C24: a backend call is issued only by a delayed execution that fires, one
\* call per firing, and the request's timer is gone by then, so it cannot fire
\* again; a firing whose token is not cancelled and whose prompt is not blank
\* issues its call; the step that processes a backend result, failed or empty
\* included, ends the request: it issues no call and sets no timer.
C24_NoRetry ==
    [][\A r \in 1..MaxReq :
          /\ (InFlight(requests', r) /\ ~InFlight(requests, r))
                => (Fires(r) /\ r \notin DOMAIN timers')
          /\ (/\ Fires(r) /\ ~requests[r].token
              /\ r \notin DOMAIN requests' => ~Blank(settled'.prompt))
                => IssuesBackendCall(r)
          /\ ProcessesResponse(r)
                => /\ \A q \in 1..MaxReq :
                          InFlight(requests', q) => InFlight(requests, q)
                   /\ timers' = timers
                   /\ issued' = issued]_vars

\* a failed backend result has been processed and no backend call is in
\* flight, although nothing was cached for the request's key
C24_Witness ==
    /\ settled.path = "failure"
    /\ ~settled.token
    /\ ~Blank(settled.prompt)
    /\ settled.cacheKey \notin DOMAIN cache
    /\ \A q \in DOMAIN requests : requests[q].pc # "awaiting"

\* ---------------------------------------------------------------- C25
\* C25: when a delayed execution issues its backend call, the cache holds no
\* entry younger than CACHE_DURATION for the request's key.
C25_NoCallWhileCached ==
    [][\A r \in DOMAIN timers :
          IssuesBackendCall(r)
          => ~(/\ requests[r].cacheKey \in DOMAIN cache
               /\ now - cache[requests[r].cacheKey].timestamp
                      < CACHE_DURATION)]_vars

\* ---------------------------------------------------------------- C26
\* C26: right after the cache write of a successful backend result no entry
\* of the cache is older than 30000 ms: every entry was written within the
\* last 30000 ms.
C26_SweepOnWrite ==
    [][\A r \in DOMAIN requests :
          (ProcessesResponse(r) /\ cache' # cache)
          => \A k \in DOMAIN cache' :
                 /\ now - cache'[k].timestamp <= 30000
                 /\ cache'[k].timestamp <= now]_vars

\* a result has just been cached while the cache holds an entry of another
\* key of age exactly 30000, which the sweep has kept
C26_Witness ==
    /\ settled.path = "success"
    /\ settled.cacheKey \in DOMAIN cache
    /\ cache[settled.cacheKey].timestamp = now
    /\ \E k \in DOMAIN cache :
           k # settled.cacheKey /\ now - cache[k].timestamp = 30000

\* ---------------------------------------------------------------- C27
\* C27: the debounce table holds a key only while a delayed execution for
\* that key is scheduled or executing; it is empty when no timer is set and
\* no backend call is in flight; and every timer that is set is the one the
\* table holds for its key.
C27_PendingTableExact ==
    /\ \A k \in DOMAIN debounceMap :
           \E r \in DOMAIN requests :
               /\ requests[r].cacheKey = k
               /\ requests[r].pc \in {"scheduled", "awaiting"}
    /\ (/\ DOMAIN timers = {}
        /\ \A r \in DOMAIN requests : requests[r].pc # "awaiting")
           => debounceMap = EmptyMap
    /\ \A r \in DOMAIN timers :
           /\ requests[r].cacheKey \in DOMAIN debounceMap
           /\ debounceMap[requests[r].cacheKey] = r

\* ---------------------------------------------------------------- C28
\* the key of the request that takes this step: the call made, the delayed
\* execution that fires or the backend result that is processed
StepKeys ==
    (IF IsCall THEN {NewCall.cacheKey} ELSE {})
    \cup {requests[r].cacheKey : r \in {q \in DOMAIN requests :
                                           Fires(q) \/ ProcessesResponse(q)}}

\* the requests of key k that are scheduled or in flight
RequestsOf(rs, k) ==
    {r \in DOMAIN rs : rs[r].cacheKey = k /\ rs[r].pc # "cleared"}

\* C28: a step of a request for key K (its call, the firing of its delayed
\* execution, the processing of its backend result) leaves every other key
\* as it was: its entry of the debounce table, its scheduled and in-flight
\* requests and their timers, and its cache entry unless that is older than
\* CACHE_DURATION.
C28_KeyIndependence ==
    [][\A K \in StepKeys :
          \A k \in (DOMAIN debounceMap \cup DOMAIN cache
                      \cup {requests[r].cacheKey : r \in DOMAIN requests})
                   \ {K, <<>>} :
              /\ (k \in DOMAIN debounceMap') = (k \in DOMAIN debounceMap)
              /\ k \in DOMAIN debounceMap => debounceMap'[k] = debounceMap[k]
              /\ RequestsOf(requests', k) = RequestsOf(requests, k)
              /\ \A r \in RequestsOf(requests, k) :
                     /\ requests'[r] = requests[r]
                     /\ (r \in DOMAIN timers') = (r \in DOMAIN timers)
                     /\ r \in DOMAIN timers => timers'[r] = timers[r]
              /\ (k \in DOMAIN cache /\ now - cache[k].timestamp < CACHE_DURATION)
                     => (k \in DOMAIN cache' /\ cache'[k] = cache[k])]_vars

\* backend calls for two keys are in flight at the same time while a third
\* request is scheduled
C28_Witness ==
    \E r, q \in DOMAIN requests :
        /\ requests[r].pc = "awaiting"
        /\ requests[q].pc = "awaiting"
        /\ requests[r].cacheKey # requests[q].cacheKey
        /\ DOMAIN timers # {}

\* ---------------------------------------------------------------- C29
\* C29: when a backend result is cached, the prompt that was sent for it is
\* the prefix the key was built from: the key is the one buildCacheKey gives
\* for the request's position and that prompt.
C29_PromptIsKeyPrefix ==
    settled.path = "success"
        => settled.cacheKey =
               cacheKeyOf(fsPath, settled.position.line,
                          settled.position.character, settled.prompt)

\* ---------------------------------------------------------------- C30
\* C30: every call that is pending eventually settles, whether or not its
\* token is ever cancelled: also one whose timer a later call for its key
\* or clearCache has cleared.  (The clock of the model stops at the last of
\* Instants; the calls are those pending while a delay can still elapse.)
C30_EveryCallSettles ==
    \A r \in 1..MaxReq :
        (/\ r \in DOMAIN requests
         /\ \E t \in Instants : t >= now + DEBOUNCE_DELAY)
            ~> (r \notin DOMAIN requests)

\* ---------------------------------------------------------------- C31
\* C31: a step of clearCache leaves the cache and the debounce table empty
\* and no timer set: none of the delayed executions scheduled before it can
\* fire afterwards, call the backend or write the cache.
C31_ClearCacheStopsPending ==
    [][clearCache
          => /\ cache' = EmptyMap
             /\ debounceMap' = EmptyMap
             /\ \A r \in DOMAIN timers : r \notin DOMAIN timers']_vars

\* ---------------------------------------------------------------- C32
\* C32: for a cursor on line c of a document of n lines the analyzer's
\* previous lines are the lines max(0, c - 10) .. c - 1 and its next lines
\* the lines c + 1 .. min(n - 1, c + 10), in document order, and the
\* provider's getContext collects the same two sequences.
C32_SurroundingLines ==
    output # <<>> =>
        LET n == input.lineCount
            c == input.line
            doc == [i \in 1..n |-> toString(i - 1)]
            first == IF c - 10 > 0 THEN c - 10 ELSE 0
            last == IF c + 10 < n - 1 THEN c + 10 ELSE n - 1
        IN /\ output[1].analyzer.previousLines = SubSeq(doc, first + 1, c)
           /\ output[1].analyzer.nextLines = SubSeq(doc, c + 2, last + 1)
           /\ output[1].provider.before = output[1].analyzer.previousLines
           /\ output[1].provider.after = output[1].analyzer.nextLines

\* the lines of a document with more than ten lines on each side of the
\* cursor have been collected: ten before and ten after
C32_Witness ==
    /\ output # <<>>
    /\ input.line > 10
    /\ input.lineCount > input.line + 11
    /\ Len(output[1].analyzer.previousLines) = 10
    /\ Len(output[1].analyzer.nextLines) = 10

\* ---------------------------------------------------------------- C33
\* the context analyzeContext returned
Context == output[1].context[1]

\* the analysis returned a context for a language that has a config
Analysed ==
    /\ output # <<>>
    /\ ~output[1].raised
    /\ input.language \in {"javascript", "python", "java", "cpp"}

\* the lines of the document (numbered from 0) whose trimmed text matches
\* the pattern, in increasing order
RECURSIVE Ascending(_)
Ascending(S) ==
    IF S = {} THEN <<>>
    ELSE LET least == CHOOSE x \in S : \A y \in S : x <= y
         IN <<least>> \o Ascending(S \ {least})

Matching(pattern, upTo) ==
    { l \in 0..upTo : test(pattern, trim(lineAt(input.doc, l))) }

\* C33: the import statements are the trimmed texts of all the lines of the
\* document, from the first to the last, whose trimmed text matches the
\* import pattern, in increasing line order, wherever the cursor is.
C33_ImportsWholeDocument ==
    Analysed =>
        LET pattern == languageConfigs(input.language)[1].importPattern
            lines == Ascending(Matching(pattern, Len(input.doc) - 1))
        IN Context.importStatements =
               [i \in 1..Len(lines) |-> trim(lineAt(input.doc, lines[i]))]

\* a python document with the cursor on its first line and two different
\* imports below it, one of them indented, has been analysed
C33_Witness ==
    /\ Analysed
    /\ input.language = "python"
    /\ input.line = 0
    /\ Context.importStatements = <<<<"i", "m", "p", "o", "r", "t", " ",
          "o", "s">>, <<"f", "r", "o", "m", " ", "a", " ", "i", "m", "p",
                "o", "r", "t", " ", "b">>>>

\* ---------------------------------------------------------------- C34
\* C34: no import statement occurs twice in the import statements.
C34_ImportsNoDuplicate ==
    Analysed =>
        \A i, j \in 1..Len(Context.importStatements) :
            i # j => Context.importStatements[i] # Context.importStatements[j]

\* ---------------------------------------------------------------- C35
\* C35: the variables have one entry for every line up to the cursor's
\* whose trimmed text matches the variable pattern, in decreasing line
\* order, also when two lines declare the same name, and none for a later
\* line; the scope of an entry is local when its line is the cursor's and
\* global otherwise.
C35_VariablesUpToCursor ==
    Analysed =>
        LET pattern == languageConfigs(input.language)[1].variablePattern
            lines == Ascending(Matching(pattern, input.line))
            n == Len(lines)
        IN /\ Len(Context.variables) = n
           /\ \A i \in 1..n :
                  /\ Context.variables[i].line = lines[n + 1 - i]
                  /\ Context.variables[i].scope =
                         IF lines[n + 1 - i] = input.line
                         THEN "local" ELSE "global"

\* a python document of three assignments to the same name, the cursor on
\* the second, has been analysed: two entries, the local one first
C35_Witness ==
    /\ Analysed
    /\ input.language = "python"
    /\ input.doc = <<<<" ", " ", " ", " ", "t", "o", "t", "a", "l", " ",
          "=", " ", "a", " ", "+", " ", "b">>, <<" ", " ", " ", " ", "t",
                "o", "t", "a", "l", " ", "=", " ", "a", " ", "+", " ",
                      "b">>, <<" ", " ", " ", " ", "t", "o", "t", "a", "l",
                            " ", "=", " ", "a", " ", "+", " ", "b">>>>
    /\ input.line = 1
    /\ Len(Context.variables) = 2
    /\ Context.variables[1].scope = "local"
    /\ Context.variables[2].scope = "global"
    /\ Context.variables[1].name = Context.variables[2].name

\* ---------------------------------------------------------------- C36
\* the names in the parameter list of a declaration: the text between its
\* first ( and the ) that follows, split at the commas, each piece without
\* its default value or type annotation; none when it has no parentheses
DeclaredParameters(text) ==
    IF ~\E i \in 1..Len(text) : text[i] = "(" THEN <<>>
    ELSE LET open == CHOOSE i \in 1..Len(text) :
                         text[i] = "(" /\ \A h \in 1..(i - 1) : text[h] # "("
             rest == SubSeq(text, open + 1, Len(text))
             list == split(rest, ")")[1]
             pieces == split(list, ",")
             named == SelectSeq([k \in 1..Len(pieces) |-> trim(pieces[k])],
                                LAMBDA piece : piece # <<>>)
         IN [k \in 1..Len(named) |->
                trim(split(split(named[k], "=")[1], ":")[1])]

\* C36: the name of the function scope is the identifier declared on the
\* matched line, whichever form the function pattern accepted (for
\* JavaScript function NAME(...), const NAME = (...) => and
\* const|let|var NAME = function), and its parameters are the names in
\* the declaration's parameter list.
C36_NameAndParameters ==
    (/\ output # <<>>
     /\ languageConfigs(input.language) # <<>>
     /\ output[1].functionScope # <<>>) =>
        LET pattern == languageConfigs(input.language)[1].functionPattern
            declaration ==
                trim(lineAt(input.doc, output[1].functionScope[1].startLine))
        IN /\ output[1].functionScope[1].name =
                  DeclaredName(pattern, declaration)
           /\ output[1].functionScope[1].parameters =
                  DeclaredParameters(declaration)

\* ---------------------------------------------------------------- C37
\* C37: without an API key getCompletion resolves with a result that is not
\* a success, makes no network request and does not throw, whatever the
\* network would have answered; the call whose backend result is processed
\* then returns the empty sequence and the cache and the token counters stay
\* as they were.
C37_MissingKey ==
    [][/\ \A outcome \in NetworkOutcomes :
              LET call == getCompletion(input.apiKey, outcome)
              IN /\ ~call.response.success
                 /\ call.networkRequests = 0
                 /\ ~call.raised
       /\ \A r \in DOMAIN requests :
              ProcessesResponse(r)
              => /\ ~settled'.response.success
                 /\ settled'.result = <<>>
                 /\ settled'.items = <<>>
                 /\ ~settled'.raised
                 /\ UNCHANGED <<cache, stats>>]_vars

\* a backend call made without a key has returned and its request resolved
\* with nothing, the prompt sent being non-blank
C37_Witness ==
    /\ input.apiKey = <<>>
    /\ settled.path = "failure"
    /\ ~Blank(settled.prompt)
    /\ settled.result = <<>>
    /\ cache = EmptyMap
    /\ stats.requestCount = 0

\* ---------------------------------------------------------------- C38
\* the total is the sum of the two counts and the request count is the
\* number of addTokens calls since the last reset
CounterConsistent(s, calls) ==
    /\ s.totalTokens = s.inputTokens + s.outputTokens
    /\ s.requestCount = calls

\* C38: from a reset state on, after every addTokens and resetStats the
\* total is the sum of the input and output counts and the request count is
\* the number of addTokens calls since the last reset; addTokens(i, o) adds
\* i, o and i + o to the three token counters; resetStats sets the four
\* counters to 0.
C38_CounterInvariant ==
    [][/\ CounterConsistent(stats, input.calls)
       /\ CounterConsistent(stats', input'.calls)
       /\ input'.op = "addTokens"
            => /\ stats'.inputTokens = stats.inputTokens + input'.inputTokens
               /\ stats'.outputTokens = stats.outputTokens + input'.outputTokens
               /\ stats'.totalTokens =
                      stats.totalTokens + input'.inputTokens
                                        + input'.outputTokens
       /\ input'.op = "resetStats"
            => /\ stats'.inputTokens = 0
               /\ stats'.outputTokens = 0
               /\ stats'.totalTokens = 0
               /\ stats'.requestCount = 0]_vars

\* the counter has been reset after counting, and has counted twice since
C38_Witness ==
    /\ input.op = "addTokens"
    /\ input.calls = 2
    /\ stats.requestCount = 2
    /\ stats.totalTokens = 3
    /\ stats.inputTokens = 1

\* ---------------------------------------------------------------- C39
\* the import that was made
Imported == output[1]

\* C39: importConfig is all-or-nothing: when it returns false (a text that
\* does not parse, a value failing validation, or a failure while applying an
\* update) no configuration value has changed; when it returns true every
\* key of the imported object except apiKey has been applied; apiKey is
\* never changed by an import.
C39_AllOrNothing ==
    output # <<>> =>
        /\ ~Imported.returned => input = Imported.before
        /\ Imported.returned =>
               \A key \in ConfigKeys \ {"apiKey"} :
                   Imported.json.config[key] # <<>>
                       => input[key] = Imported.json.config[key][1]
        /\ input.apiKey = Imported.before.apiKey

\* C39 without the failure while applying an update: a text that does not
\* parse or fails validation changes nothing, a successful import applies
\* every key but apiKey, and apiKey is never changed.
C39_WithoutRefusedUpdate ==
    output # <<>> =>
        /\ (~Imported.json.parses \/ validateConfig(Imported.json.config) # {})
               => ~Imported.returned /\ input = Imported.before
        /\ Imported.returned =>
               \A key \in ConfigKeys \ {"apiKey"} :
                   Imported.json.config[key] # <<>>
                       => input[key] = Imported.json.config[key][1]
        /\ input.apiKey = Imported.before.apiKey

====
